---- MODULE Spec2Model ----
(***************************************************************************)
(* AsetFilter Excel parser (src/asetfilter/parser.py) as a state machine.  *)
(*                                                                         *)
(* A run of parse_excel_file is modelled step by step: reading the sheet,  *)
(* locating the header row, mapping the columns, processing each data row  *)
(* and returning.  Cell text is modelled by TLA+ strings, on which Len,    *)
(* SubSeq and \o act character by character.                               *)
(***************************************************************************)
EXTENDS Integers, Sequences, FiniteSets, TLC

VARIABLES
    book,               \* the workbook at `filepath`: a sequence of [name, rows]; <<>> is an unreadable file
    pc,                 \* position of the run inside parse_excel_file
    df_raw,             \* the sheet read, after astype(object) and fillna('')
    header_row_idx,     \* 0-based index of the header row
    columns,            \* df_data.columns: the stripped header texts
    df_data,            \* the rows below the header row
    col_map,            \* 0-based column position -> canonical field name
    i,                  \* number of rows of df_data the loop has consumed
    all_data,           \* records appended so far
    all_idx,            \* for each record of all_data, the 1-based position in df_data of its row
    skipped_by_filter,  \* local counter of rows rejected by is_data_row
    stats,              \* the statistics dictionary
    result,             \* the returned record set (<<>> until the run returns)
    other,              \* the locals of a second invocation running in another thread
    hpc,                \* position of an upload request inside the upload handler of app.py
    assets,             \* the rows of the Asset table, as committed
    assets_before,      \* the rows of the Asset table when the request arrived
    session_assets,     \* the rows of the Asset table as db.session sees them in its transaction
    upload_record,      \* the UploadHistory entry of the request, as committed
    file_exists,        \* whether a file stands at `filepath` in the upload folder
    exc,                \* str(e) of the exception the handler is dealing with, "" when none
    write_lock          \* whether the transaction of the request holds the write lock of the database

\* the state of the upload handler and of its database
web == <<hpc, assets, assets_before, session_assets, upload_record, file_exists, exc,
        write_lock>>

vars == <<book, pc, df_raw, header_row_idx, columns, df_data, col_map, i,
          all_data, all_idx, skipped_by_filter, stats, result, other, web>>

-----------------------------------------------------------------------------
(* Python str primitives over strings.                                     *)

\* The characters of cell text: the code points U+0000..U+00FF and, above them, the
\* code points below U+10000 whose low byte is 80..FF; a string literal holds no
\* others, nor U+0060.  Each table below lists the characters of that range for which
\* Python (Unicode 14.0) gives the property or the mapping.

DigitChars == "0123456789"

CharAt(s, k) == SubSeq(s, k, k)

\* position of the one-character string c in s, 0 when absent
IndexIn(c, s) ==
    LET hits == {k \in 1..Len(s) : CharAt(s, k) = c}
    IN  IF hits = {} THEN 0 ELSE CHOOSE k \in hits : \A j \in hits : k <= j

CharsOf(s) == {CharAt(s, k) : k \in 1..Len(s)}

\* c.upper() # c with an image of one character: the characters, and their images
UpperFrom == "abcdefghijklmnopqrstuvwxyzµàáâãäåæçèéêëìíîïðñòóôõöøùúûüýþƃƅƈƌƒƕƙơƣƥƨƭưƴƶƹƽƿǅǆǈǉǋǌǎǐǒǔǖǘǚǜǝǟǡǣǥǧǩǫǭǯǲǳǵǹǻǽǿʀʂʃʇʈʊʋʒʝʞάέήίαβγδεζηθικλμνξοπρςστυφχψωϊϋόύώϐϑϕϖϗϙϛϝϟϡϣϥϧϩϫϭϯϰϱϲϵϸϻҁҋҍҏґғҕҗҙқҝҟҡңҥҧҩҫҭүұҳҵҷҹһҽҿӂӄӆӈӊӌӎӏӑӓӕӗәӛӝӟӡӣӥӧөӫӭӯӱӳӵӷӹӻӽӿაბგდევზთიკლმნოპჟრსტუფქღყშჩცძწჭხჯჰჱჲჳჴჵჶჷჸჹჺჽჾჿᏸᏹᏺᏻᏼᏽᶎẁẃẅẇẉẋẍẏẑẓẕạảấầẩẫậắằẳẵặẹẻẽếềểễệỉịọỏốồổỗộớờởỡợụủứừửữựỳỵỷỹỻỽỿᾰᾱιῐῑῠῡῥↄⓐⓑⓒⓓⓔⓕⓖⓗⓘⓙⓚⓛⓜⓝⓞⓟⓠⓡⓢⓣⓤⓥⓦⓧⓨⓩⲁⲃⲅⲇⲉⲋⲍⲏⲑⲓⲕⲗⲙⲛⲝⲟⲡⲣⲥⲧⲩⲫⲭⲯⲱⲳⲵⲷⲹⲻⲽⲿⳁⳃⳅⳇⳉⳋⳍⳏⳑⳓⳕⳗⳙⳛⳝⳟⳡⳣⳬⳮⳳꚁꚃꚅꚇꚉꚋꚍꚏꚑꚓꚕꚗꚙꚛꞁꞃꞅꞇꞌꞑꞓꞔꞗꞙꞛꞝꞟꞡꞣꞥꞧꞩꞵꞷꞹꞻꞽꞿꟁꟃꟈꟊꟑꟗꟙꟶꮀꮁꮂꮃꮄꮅꮆꮇꮈꮉꮊꮋꮌꮍꮎꮏꮐꮑꮒꮓꮔꮕꮖꮗꮘꮙꮚꮛꮜꮝꮞꮟꮠꮡꮢꮣꮤꮥꮦꮧꮨꮩꮪꮫꮬꮭꮮꮯꮰꮱꮲꮳꮴꮵꮶꮷꮸꮹꮺꮻꮼꮽꮾꮿ"
UpperTo == "ABCDEFGHIJKLMNOPQRSTUVWXYZΜÀÁÂÃÄÅÆÇÈÉÊËÌÍÎÏÐÑÒÓÔÕÖØÙÚÛÜÝÞƂƄƇƋƑǶƘƠƢƤƧƬƯƳƵƸƼǷǄǄǇǇǊǊǍǏǑǓǕǗǙǛƎǞǠǢǤǦǨǪǬǮǱǱǴǸǺǼǾƦꟅƩꞱƮƱƲƷꞲꞰΆΈΉΊΑΒΓΔΕΖΗΘΙΚΛΜΝΞΟΠΡΣΣΤΥΦΧΨΩΪΫΌΎΏΒΘΦΠϏϘϚϜϞϠϢϤϦϨϪϬϮΚΡϹΕϷϺҀҊҌҎҐҒҔҖҘҚҜҞҠҢҤҦҨҪҬҮҰҲҴҶҸҺҼҾӁӃӅӇӉӋӍӀӐӒӔӖӘӚӜӞӠӢӤӦӨӪӬӮӰӲӴӶӸӺӼӾᲐᲑᲒᲓᲔᲕᲖᲗᲘᲙᲚᲛᲜᲝᲞᲟᲠᲡᲢᲣᲤᲥᲦᲧᲨᲩᲪᲫᲬᲭᲮᲯᲰᲱᲲᲳᲴᲵᲶᲷᲸᲹᲺᲽᲾᲿᏰᏱᏲᏳᏴᏵꟆẀẂẄẆẈẊẌẎẐẒẔẠẢẤẦẨẪẬẮẰẲẴẶẸẺẼẾỀỂỄỆỈỊỌỎỐỒỔỖỘỚỜỞỠỢỤỦỨỪỬỮỰỲỴỶỸỺỼỾᾸᾹΙῘῙῨῩῬↃⒶⒷⒸⒹⒺⒻⒼⒽⒾⒿⓀⓁⓂⓃⓄⓅⓆⓇⓈⓉⓊⓋⓌⓍⓎⓏⲀⲂⲄⲆⲈⲊⲌⲎⲐⲒⲔⲖⲘⲚⲜⲞⲠⲢⲤⲦⲨⲪⲬⲮⲰⲲⲴⲶⲸⲺⲼⲾⳀⳂⳄⳆⳈⳊⳌⳎⳐⳒⳔⳖⳘⳚⳜⳞⳠⳢⳫⳭⳲꚀꚂꚄꚆꚈꚊꚌꚎꚐꚒꚔꚖꚘꚚꞀꞂꞄꞆꞋꞐꞒꟄꞖꞘꞚꞜꞞꞠꞢꞤꞦꞨꞴꞶꞸꞺꞼꞾꟀꟂꟇꟉꟐꟖꟘꟵᎰᎱᎲᎳᎴᎵᎶᎷᎸᎹᎺᎻᎼᎽᎾᎿᏀᏁᏂᏃᏄᏅᏆᏇᏈᏉᏊᏋᏌᏍᏎᏏᏐᏑᏒᏓᏔᏕᏖᏗᏘᏙᏚᏛᏜᏝᏞᏟᏠᏡᏢᏣᏤᏥᏦᏧᏨᏩᏪᏫᏬᏭᏮᏯ"

\* c.upper() of more than one character
UpperExpanding ==
    <<<<"ß", "SS">>, <<"ẚ", "Aʾ">>, <<"ᾲ", "ᾺΙ">>, <<"ᾳ", "ΑΙ">>, <<"ᾴ", "ΆΙ">>, <<"ᾼ", "ΑΙ">>, <<"ῂ", "ῊΙ">>, <<"ῃ", "ΗΙ">>, <<"ῄ", "ΉΙ">>, <<"ῌ", "ΗΙ">>, <<"ῲ", "ῺΙ">>, <<"ῳ", "ΩΙ">>, <<"ῴ", "ΏΙ">>, <<"ῼ", "ΩΙ">>>>

\* c.lower() # c: the characters, and their images
LowerFrom == "ABCDEFGHIJKLMNOPQRSTUVWXYZÀÁÂÃÄÅÆÇÈÉÊËÌÍÎÏÐÑÒÓÔÕÖØÙÚÛÜÝÞƂƄƇƋƎƑƘƠƢƤƦƧƩƬƮƯƱƲƳƵƷƸƼǄǅǇǈǊǋǍǏǑǓǕǗǙǛǞǠǢǤǦǨǪǬǮǱǲǴǶǷǸǺǼǾΆΈΉΊΌΎΏΑΒΓΔΕΖΗΘΙΚΛΜΝΞΟΠΡΣΤΥΦΧΨΩΪΫϏϘϚϜϞϠϢϤϦϨϪϬϮϴϷϹϺҀҊҌҎҐҒҔҖҘҚҜҞҠҢҤҦҨҪҬҮҰҲҴҶҸҺҼҾӀӁӃӅӇӉӋӍӐӒӔӖӘӚӜӞӠӢӤӦӨӪӬӮӰӲӴӶӸӺӼӾᎰᎱᎲᎳᎴᎵᎶᎷᎸᎹᎺᎻᎼᎽᎾᎿᏀᏁᏂᏃᏄᏅᏆᏇᏈᏉᏊᏋᏌᏍᏎᏏᏐᏑᏒᏓᏔᏕᏖᏗᏘᏙᏚᏛᏜᏝᏞᏟᏠᏡᏢᏣᏤᏥᏦᏧᏨᏩᏪᏫᏬᏭᏮᏯᏰᏱᏲᏳᏴᏵᲐᲑᲒᲓᲔᲕᲖᲗᲘᲙᲚᲛᲜᲝᲞᲟᲠᲡᲢᲣᲤᲥᲦᲧᲨᲩᲪᲫᲬᲭᲮᲯᲰᲱᲲᲳᲴᲵᲶᲷᲸᲹᲺᲽᲾᲿẀẂẄẆẈẊẌẎẐẒẔẞẠẢẤẦẨẪẬẮẰẲẴẶẸẺẼẾỀỂỄỆỈỊỌỎỐỒỔỖỘỚỜỞỠỢỤỦỨỪỬỮỰỲỴỶỸỺỼỾᾈᾉᾊᾋᾌᾍᾎᾏᾘᾙᾚᾛᾜᾝᾞᾟᾨᾩᾪᾫᾬᾭᾮᾯᾸᾹᾼῌῘῙῨῩῬῼↃⒶⒷⒸⒹⒺⒻⒼⒽⒾⒿⓀⓁⓂⓃⓄⓅⓆⓇⓈⓉⓊⓋⓌⓍⓎⓏⲀⲂⲄⲆⲈⲊⲌⲎⲐⲒⲔⲖⲘⲚⲜⲞⲠⲢⲤⲦⲨⲪⲬⲮⲰⲲⲴⲶⲸⲺⲼⲾⳀⳂⳄⳆⳈⳊⳌⳎⳐⳒⳔⳖⳘⳚⳜⳞⳠⳢⳫⳭⳲꚀꚂꚄꚆꚈꚊꚌꚎꚐꚒꚔꚖꚘꚚꞀꞂꞄꞆꞋꞐꞒꞖꞘꞚꞜꞞꞠꞢꞤꞦꞨꞰꞱꞲꞴꞶꞸꞺꞼꞾꟀꟂꟄꟅꟆꟇꟉꟐꟖꟘꟵ"
LowerTo == "abcdefghijklmnopqrstuvwxyzàáâãäåæçèéêëìíîïðñòóôõöøùúûüýþƃƅƈƌǝƒƙơƣƥʀƨʃƭʈưʊʋƴƶʒƹƽǆǆǉǉǌǌǎǐǒǔǖǘǚǜǟǡǣǥǧǩǫǭǯǳǳǵƕƿǹǻǽǿάέήίόύώαβγδεζηθικλμνξοπρστυφχψωϊϋϗϙϛϝϟϡϣϥϧϩϫϭϯθϸϲϻҁҋҍҏґғҕҗҙқҝҟҡңҥҧҩҫҭүұҳҵҷҹһҽҿӏӂӄӆӈӊӌӎӑӓӕӗәӛӝӟӡӣӥӧөӫӭӯӱӳӵӷӹӻӽӿꮀꮁꮂꮃꮄꮅꮆꮇꮈꮉꮊꮋꮌꮍꮎꮏꮐꮑꮒꮓꮔꮕꮖꮗꮘꮙꮚꮛꮜꮝꮞꮟꮠꮡꮢꮣꮤꮥꮦꮧꮨꮩꮪꮫꮬꮭꮮꮯꮰꮱꮲꮳꮴꮵꮶꮷꮸꮹꮺꮻꮼꮽꮾꮿᏸᏹᏺᏻᏼᏽაბგდევზთიკლმნოპჟრსტუფქღყშჩცძწჭხჯჰჱჲჳჴჵჶჷჸჹჺჽჾჿẁẃẅẇẉẋẍẏẑẓẕßạảấầẩẫậắằẳẵặẹẻẽếềểễệỉịọỏốồổỗộớờởỡợụủứừửữựỳỵỷỹỻỽỿᾀᾁᾂᾃᾄᾅᾆᾇᾐᾑᾒᾓᾔᾕᾖᾗᾠᾡᾢᾣᾤᾥᾦᾧᾰᾱᾳῃῐῑῠῡῥῳↄⓐⓑⓒⓓⓔⓕⓖⓗⓘⓙⓚⓛⓜⓝⓞⓟⓠⓡⓢⓣⓤⓥⓦⓧⓨⓩⲁⲃⲅⲇⲉⲋⲍⲏⲑⲓⲕⲗⲙⲛⲝⲟⲡⲣⲥⲧⲩⲫⲭⲯⲱⲳⲵⲷⲹⲻⲽⲿⳁⳃⳅⳇⳉⳋⳍⳏⳑⳓⳕⳗⳙⳛⳝⳟⳡⳣⳬⳮⳳꚁꚃꚅꚇꚉꚋꚍꚏꚑꚓꚕꚗꚙꚛꞁꞃꞅꞇꞌꞑꞓꞗꞙꞛꞝꞟꞡꞣꞥꞧꞩʞʇʝꞵꞷꞹꞻꞽꞿꟁꟃꞔʂᶎꟈꟊꟑꟗꟙꟶ"

\* the cased characters that are not case-ignorable, and the case-ignorable
\* characters (the two classes str.lower() consults around a capital sigma)
CasedChars == "ABCDEFGHIJKLMNOPQRSTUVWXYZabcdefghijklmnopqrstuvwxyzªµºÀÁÂÃÄÅÆÇÈÉÊËÌÍÎÏÐÑÒÓÔÕÖØÙÚÛÜÝÞßàáâãäåæçèéêëìíîïðñòóôõöøùúûüýþÿƀƁƂƃƄƅƆƇƈƉƊƋƌƍƎƏƐƑƒƓƔƕƖƗƘƙƚƛƜƝƞƟƠơƢƣƤƥƦƧƨƩƪƫƬƭƮƯưƱƲƳƴƵƶƷƸƹƺƼƽƾƿǄǅǆǇǈǉǊǋǌǍǎǏǐǑǒǓǔǕǖǗǘǙǚǛǜǝǞǟǠǡǢǣǤǥǦǧǨǩǪǫǬǭǮǯǰǱǲǳǴǵǶǷǸǹǺǻǼǽǾǿʀʁʂʃʄʅʆʇʈʉʊʋʌʍʎʏʐʑʒʓʕʖʗʘʙʚʛʜʝʞʟʠʡʢʣʤʥʦʧʨʩʪʫʬʭʮʯΆΈΉΊΌΎΏΐΑΒΓΔΕΖΗΘΙΚΛΜΝΞΟΠΡΣΤΥΦΧΨΩΪΫάέήίΰαβγδεζηθικλμνξοπρςστυφχψωϊϋόύώϏϐϑϒϓϔϕϖϗϘϙϚϛϜϝϞϟϠϡϢϣϤϥϦϧϨϩϪϫϬϭϮϯϰϱϲϳϴϵϷϸϹϺϻϼϽϾϿҀҁҊҋҌҍҎҏҐґҒғҔҕҖҗҘҙҚқҜҝҞҟҠҡҢңҤҥҦҧҨҩҪҫҬҭҮүҰұҲҳҴҵҶҷҸҹҺһҼҽҾҿӀӁӂӃӄӅӆӇӈӉӊӋӌӍӎӏӐӑӒӓӔӕӖӗӘәӚӛӜӝӞӟӠӡӢӣӤӥӦӧӨөӪӫӬӭӮӯӰӱӲӳӴӵӶӷӸӹӺӻӼӽӾӿրցւփքօֆևֈႠႡႢႣႤႥႦႧႨႩႪႫႬႭႮႯႰႱႲႳႴႵႶႷႸႹႺႻႼႽႾႿჀჁჂჃჄჅჇჍაბგდევზთიკლმნოპჟრსტუფქღყშჩცძწჭხჯჰჱჲჳჴჵჶჷჸჹჺჽჾჿᎠᎡᎢᎣᎤᎥᎦᎧᎨᎩᎪᎫᎬᎭᎮᎯᎰᎱᎲᎳᎴᎵᎶᎷᎸᎹᎺᎻᎼᎽᎾᎿᏀᏁᏂᏃᏄᏅᏆᏇᏈᏉᏊᏋᏌᏍᏎᏏᏐᏑᏒᏓᏔᏕᏖᏗᏘᏙᏚᏛᏜᏝᏞᏟᏠᏡᏢᏣᏤᏥᏦᏧᏨᏩᏪᏫᏬᏭᏮᏯᏰᏱᏲᏳᏴᏵᏸᏹᏺᏻᏼᏽᲀᲁᲂᲃᲄᲅᲆᲇᲈᲐᲑᲒᲓᲔᲕᲖᲗᲘᲙᲚᲛᲜᲝᲞᲟᲠᲡᲢᲣᲤᲥᲦᲧᲨᲩᲪᲫᲬᲭᲮᲯᲰᲱᲲᲳᲴᲵᲶᲷᲸᲹᲺᲽᲾᲿᶀᶁᶂᶃᶄᶅᶆᶇᶈᶉᶊᶋᶌᶍᶎᶏᶐᶑᶒᶓᶔᶕᶖᶗᶘᶙᶚẀẁẂẃẄẅẆẇẈẉẊẋẌẍẎẏẐẑẒẓẔẕẖẗẘẙẚẛẜẝẞẟẠạẢảẤấẦầẨẩẪẫẬậẮắẰằẲẳẴẵẶặẸẹẺẻẼẽẾếỀềỂểỄễỆệỈỉỊịỌọỎỏỐốỒồỔổỖỗỘộỚớỜờỞởỠỡỢợỤụỦủỨứỪừỬửỮữỰựỲỳỴỵỶỷỸỹỺỻỼỽỾỿᾀᾁᾂᾃᾄᾅᾆᾇᾈᾉᾊᾋᾌᾍᾎᾏᾐᾑᾒᾓᾔᾕᾖᾗᾘᾙᾚᾛᾜᾝᾞᾟᾠᾡᾢᾣᾤᾥᾦᾧᾨᾩᾪᾫᾬᾭᾮᾯᾰᾱᾲᾳᾴᾶᾷᾸᾹᾺΆᾼιῂῃῄῆῇῈΈῊΉῌῐῑῒΐῖῗῘῙῚΊῠῡῢΰῤῥῦῧῨῩῪΎῬῲῳῴῶῷῸΌῺΏῼↃↄⒶⒷⒸⒹⒺⒻⒼⒽⒾⒿⓀⓁⓂⓃⓄⓅⓆⓇⓈⓉⓊⓋⓌⓍⓎⓏⓐⓑⓒⓓⓔⓕⓖⓗⓘⓙⓚⓛⓜⓝⓞⓟⓠⓡⓢⓣⓤⓥⓦⓧⓨⓩⲀⲁⲂⲃⲄⲅⲆⲇⲈⲉⲊⲋⲌⲍⲎⲏⲐⲑⲒⲓⲔⲕⲖⲗⲘⲙⲚⲛⲜⲝⲞⲟⲠⲡⲢⲣⲤⲥⲦⲧⲨⲩⲪⲫⲬⲭⲮⲯⲰⲱⲲⲳⲴⲵⲶⲷⲸⲹⲺⲻⲼⲽⲾⲿⳀⳁⳂⳃⳄⳅⳆⳇⳈⳉⳊⳋⳌⳍⳎⳏⳐⳑⳒⳓⳔⳕⳖⳗⳘⳙⳚⳛⳜⳝⳞⳟⳠⳡⳢⳣⳤⳫⳬⳭⳮⳲⳳꚀꚁꚂꚃꚄꚅꚆꚇꚈꚉꚊꚋꚌꚍꚎꚏꚐꚑꚒꚓꚔꚕꚖꚗꚘꚙꚚꚛꞀꞁꞂꞃꞄꞅꞆꞇꞋꞌꞍꞎꞐꞑꞒꞓꞔꞕꞖꞗꞘꞙꞚꞛꞜꞝꞞꞟꞠꞡꞢꞣꞤꞥꞦꞧꞨꞩꞪꞫꞬꞭꞮꞯꞰꞱꞲꞳꞴꞵꞶꞷꞸꞹꞺꞻꞼꞽꞾꞿꟀꟁꟂꟃꟄꟅꟆꟇꟈꟉꟊꟐꟑꟓꟕꟖꟗꟘꟙꟵꟶꟺꮀꮁꮂꮃꮄꮅꮆꮇꮈꮉꮊꮋꮌꮍꮎꮏꮐꮑꮒꮓꮔꮕꮖꮗꮘꮙꮚꮛꮜꮝꮞꮟꮠꮡꮢꮣꮤꮥꮦꮧꮨꮩꮪꮫꮬꮭꮮꮯꮰꮱꮲꮳꮴꮵꮶꮷꮸꮹꮺꮻꮼꮽꮾꮿ"
CaseIgnorableChars == "'.:^¨­¯´·¸ʰʱʲʳʴʵʶʷʸʹʺʻʼʽʾʿˀˁ˂˃˄˅ˆˇˈˉˊˋˌˍˎˏːˑ˒˓˔˕˖˗˘˙˚˛˜˝˞˟ˠˡˢˣˤ˥˦˧˨˩˪˫ˬ˭ˮ˯˰˱˲˳˴˵˶˷˸˹˺˻˼˽˾˿΄΅·҃҄҅҆҇҈҉ְֱֲֳִֵֶַָׇֹֺֻּֽֿׁׂ֑֖֛֢֣֤֥֦֧֪ׅ֚֭֮֒֓֔֕֗֘֙֜֝֞֟֠֡֨֩֫֬֯ׄ״ۖۗۘۙۚۛۜ۝ۣ۟۠ۡۢۤۥۦ۪ۭۧۨ۫۬ަާިީުޫެޭޮޯް߲߫߬߭߮߯߰߱߳ߴߵߺ߽࢈࢐࢑࢙࢚࢛࢘࢜࢝࢞࢟ࣉ࣏࣐࣑࣒࣓࣊࣋࣌࣍࣎ࣔࣕࣖࣗࣘࣙࣚࣛࣜࣝࣞࣟ࣠࣡࣢ࣰࣱࣲࣣࣦࣩ࣭࣮࣯ࣶࣹࣺࣤࣥࣧࣨ࣪࣫࣬ࣳࣴࣵࣷࣸࣻࣼࣽࣾࣿঁ়ুূৃৄ্ৢৣ৾ઁં઼ુૂૃૄૅેૈ્ૢૣૺૻૼ૽૾૿ஂீ்ಁ಼ಿೆೌ್ೢೣඁ්ිීුූັິີຶື຺ຸູົຼໆ່້໊໋໌ໍ྄ཱྀྀྂྃ྆྇ྍྎྏྐྑྒྒྷྔྕྖྗྙྚྛྜྜྷྞྟྠྡྡྷྣྤྥྦྦྷྨྩྪྫྫྷྭྮྯྰྱྲླྴྵྶྷྸྐྵྺྻྼ࿆ႂႅႆႍႝჼ឴឵ិីឹឺុូួំ៉៊់៌៍៎៏័៑្៓ៗ៝ᢅᢆᢩᪧ᪵᪶᪷᪸᪹᪺᪽᪰᪱᪲᪳᪴᪻᪼᪾ᪿᫀ᫃᫄᫊᫁᫂᫅᫆᫇᫈᫉᫋ᫌᫍᫎᮀᮁᮢᮣᮤᮥᮨᮩ᮫ᮬᮭ᯦ᯨᯩᯭᯯᯰᯱ᳔᳢᳣᳤᳥᳦᳧᳨᳕᳖᳗᳘᳙᳜᳝᳞᳟᳭᳐᳑᳒᳚᳛᳠᳴᳸᳹ᶛᶜᶝᶞᶟᶠᶡᶢᶣᶤᶥᶦᶧᶨᶩᶪᶫᶬᶭᶮᶯᶰᶱᶲᶳᶴᶵᶶᶷᶸᶹᶺᶻᶼᶽᶾᶿ᷐᷎᷺᷂᷊᷏᷹᷽᷿᷷᷸᷀᷁᷃᷄᷅᷆᷇᷈᷉᷋᷌᷑᷒ᷓᷔᷕᷖᷗᷘᷙᷚᷛᷜᷝᷞᷟᷠᷡᷢᷣᷤᷥᷦᷧᷨᷩᷪᷫᷬᷭᷮᷯᷰᷱᷲᷳᷴ᷵᷻᷾᷶᷼᷍᾽᾿῀῁῍῎῏῝῞῟῭΅`´῾ₐₑₒₓₔₕₖₗₘₙₚₛₜ⃒⃓⃘⃙⃚⃐⃑⃔⃕⃖⃗⃛⃜⃝⃞⃟⃠⃡⃢⃣⃤⃥⃦⃪⃫゙゚⃨⃬⃭⃮⃯⃧⃩⃰⳯⳰⳱ⷠⷡⷢⷣⷤⷥⷦⷧⷨⷩⷪⷫⷬⷭⷮⷯⷰⷱⷲⷳⷴⷵⷶⷷⷸⷹⷺⷻⷼⷽⷾⷿ゛゜ゝゞーヽヾꓸꓹꓺꓻꓼꓽꚜꚝꚞꚟ꛰꛱ꞈ꞉꞊ꟲꟳꟴꟸꟹ꣄ꣅ꣠꣡꣢꣣꣤꣥꣦꣧꣨꣩꣪꣫꣬꣭꣮꣯꣰꣱ꣿꦀꦁꦂ꦳ꦶꦷꦸꦹꦼꦽꧏꧥꧦꪴꪰꪲꪳꪷꪸꪾ꪿꫁ꫝꫬꫭꫳꫴ꫶ꯥꯨ꯭﮲﮳﮴﮵﮶﮷﮸﮹﮺﮻﮼﮽﮾﮿﯀﯁﯂﻿ﾞﾟ￣￹￺￻"

\* the characters \d matches and int() and float() read as decimal digits: ten per
\* script, each run in the order 0..9
DecimalChars == "0123456789۰۱۲۳۴۵۶۷۸۹߀߁߂߃߄߅߆߇߈߉০১২৩৪৫৬৭৮৯૦૧૨૩૪૫૬૭૮૯௦௧௨௩௪௫௬௭௮௯೦೧೨೩೪೫೬೭೮೯෦෧෨෩෪෫෬෭෮෯໐໑໒໓໔໕໖໗໘໙႐႑႒႓႔႕႖႗႘႙០១២៣៤៥៦៧៨៩᧐᧑᧒᧓᧔᧕᧖᧗᧘᧙᪀᪁᪂᪃᪄᪅᪆᪇᪈᪉᪐᪑᪒᪓᪔᪕᪖᪗᪘᪙᮰᮱᮲᮳᮴᮵᮶᮷᮸᮹꣐꣑꣒꣓꣔꣕꣖꣗꣘꣙꧐꧑꧒꧓꧔꧕꧖꧗꧘꧙꧰꧱꧲꧳꧴꧵꧶꧷꧸꧹꯰꯱꯲꯳꯴꯵꯶꯷꯸꯹"

\* the characters str.strip() trims and \s matches
WhitespaceChars == "\t\n\f\r   "

\* the characters whose upper-case form, and those whose lower-case form, holds a
\* character outside the range (U+00FF, whose upper-case form is U+0178): the form
\* cannot be written, and upper and lower have no value on text that holds one
NoUpperForm == CharsOf("ÿƀƚƞǰʉʌΐΰϳրցւփքօֆևᲀᲁᲂᲃᲄᲅᲆᲇᲈẖẗẘẙẛᾀᾁᾂᾃᾄᾅᾆᾇᾈᾉᾊᾋᾌᾍᾎᾏᾐᾑᾒᾓᾔᾕᾖᾗᾘᾙᾚᾛᾜᾝᾞᾟᾠᾡᾢᾣᾤᾥᾦᾧᾨᾩᾪᾫᾬᾭᾮᾯᾶᾷῆῇῒΐῖῗῢΰῤῦῧῶῷ")
NoLowerForm == CharsOf("ƁƆƉƊƏƐƓƔƖƗƜƝƟϽϾϿႠႡႢႣႤႥႦႧႨႩႪႫႬႭႮႯႰႱႲႳႴႵႶႷႸႹႺႻႼႽႾႿჀჁჂჃჄჅჇჍᎠᎡᎢᎣᎤᎥᎦᎧᎨᎩᎪᎫᎬᎭᎮᎯᾺΆῈΈῊΉῚΊῪΎῸΌῺΏꞍꞪꞫꞬꞭꞮꞳ")

ExpandingSet == {UpperExpanding[k][1] : k \in 1..Len(UpperExpanding)}
LowerSet == CharsOf(UpperFrom) \cup ExpandingSet
UpperSet == CharsOf(LowerFrom)
DigitSet == CharsOf(DecimalChars)
CasedSet == CharsOf(CasedChars)
CaseIgnorableSet == CharsOf(CaseIgnorableChars)
WhitespaceSet == CharsOf(WhitespaceChars)

ToUpper == [c \in LowerSet |->
               IF c \in ExpandingSet
               THEN UpperExpanding[CHOOSE k \in 1..Len(UpperExpanding) : UpperExpanding[k][1] = c][2]
               ELSE CharAt(UpperTo, IndexIn(c, UpperFrom))]
ToLower == [c \in UpperSet |-> CharAt(LowerTo, IndexIn(c, LowerFrom))]
DigitValue == [c \in DigitSet |-> (IndexIn(c, DecimalChars) - 1) % 10]

IsDigit(c) == c \in DigitSet
IsSpace(c) == c \in WhitespaceSet

\* c.upper() and c.lower() of one character; ToUpper and ToLower have no value for a
\* character of NoUpperForm and NoLowerForm
UpperChar(c) == IF c \in LowerSet \/ c \in NoUpperForm THEN ToUpper[c] ELSE c
LowerChar(c) == IF c \in UpperSet \/ c \in NoLowerForm THEN ToLower[c] ELSE c

RECURSIVE upper(_)
upper(s) == IF s = "" THEN "" ELSE UpperChar(CharAt(s, 1)) \o upper(SubSeq(s, 2, Len(s)))

\* whether the capital sigma at position k of s ends a word: the nearest character
\* before it that is not case-ignorable is cased, and the nearest one after it, if
\* any, is not
FinalSigma(s, k) ==
    LET before == {j \in 1..(k - 1) : CharAt(s, j) \notin CaseIgnorableSet}
        after  == {j \in (k + 1)..Len(s) : CharAt(s, j) \notin CaseIgnorableSet}
    IN  /\ before # {}
        /\ CharAt(s, CHOOSE j \in before : \A m \in before : m <= j) \in CasedSet
        /\ \/ after = {}
           \/ CharAt(s, CHOOSE j \in after : \A m \in after : j <= m) \notin CasedSet

\* the lower-case form of s[k..]
RECURSIVE LowerFromPosition(_, _)
LowerFromPosition(s, k) ==
    IF k > Len(s) THEN ""
    ELSE (IF CharAt(s, k) = "Σ" /\ FinalSigma(s, k) THEN "ς" ELSE LowerChar(CharAt(s, k)))
         \o LowerFromPosition(s, k + 1)

lower(s) == LowerFromPosition(s, 1)

RECURSIVE lstrip(_)
lstrip(s) == IF s # "" /\ IsSpace(CharAt(s, 1)) THEN lstrip(SubSeq(s, 2, Len(s))) ELSE s

RECURSIVE rstrip(_)
rstrip(s) == IF s # "" /\ IsSpace(CharAt(s, Len(s))) THEN rstrip(SubSeq(s, 1, Len(s) - 1)) ELSE s

strip(s) == rstrip(lstrip(s))

\* Python `sub in s`
Contains(sub, s) == \E k \in 0..(Len(s) - Len(sub)) : SubSeq(s, k + 1, k + Len(sub)) = sub

\* Python s.startswith(prefix)
startswith(s, prefix) == Len(prefix) <= Len(s) /\ SubSeq(s, 1, Len(prefix)) = prefix

\* Python sep.join(parts)
RECURSIVE join(_, _)
join(sep, parts) ==
    IF Len(parts) = 0 THEN ""
    ELSE IF Len(parts) = 1 THEN parts[1]
    ELSE parts[1] \o sep \o join(sep, Tail(parts))

KeepNumeric(c) == IsDigit(c) \/ c \in {".", "-"}
DropCurrency(c) == ~(c \in {"R", "p", ".", ","} \/ IsSpace(c))

\* re.sub(r'[^\d.\-]', '', s): the digits, '.' and '-' of s, in order
RECURSIVE SubNonNumeric(_)
SubNonNumeric(s) ==
    IF s = "" THEN ""
    ELSE (IF KeepNumeric(CharAt(s, 1)) THEN CharAt(s, 1) ELSE "") \o SubNonNumeric(SubSeq(s, 2, Len(s)))

\* re.sub(r'[Rp.,\s]', '', s)
RECURSIVE SubCurrency(_)
SubCurrency(s) ==
    IF s = "" THEN ""
    ELSE (IF DropCurrency(CharAt(s, 1)) THEN CharAt(s, 1) ELSE "") \o SubCurrency(SubSeq(s, 2, Len(s)))

RECURSIVE Pow10(_)
Pow10(k) == IF k = 0 THEN 1 ELSE 10 * Pow10(k - 1)

\* decimal digits of a natural number
RECURSIVE NatToStr(_)
NatToStr(n) == IF n < 10 THEN CharAt(DigitChars, n + 1)
               ELSE NatToStr(n \div 10) \o CharAt(DigitChars, (n % 10) + 1)

\* value of a non-empty string of digits
RECURSIVE DigitsToNat(_)
DigitsToNat(s) == IF s = "" THEN 0
                  ELSE 10 * DigitsToNat(SubSeq(s, 1, Len(s) - 1)) + DigitValue[CharAt(s, Len(s))]

AllDigits(s) == \A k \in 1..Len(s) : IsDigit(CharAt(s, k))

-----------------------------------------------------------------------------
(* Cell values.  Every value is a record of one shape:                     *)
(*   t = "nan"   an empty cell as pandas reads it (NaN)                    *)
(*   t = "str"   the text s                                                *)
(*   t = "int"   the integer n                                             *)
(*   t = "float" the finite float n / 10^d, with n % 10 # 0 when d > 0     *)
(*   t = "inf"   the float +inf (n = 1) or -inf (n = -1)                   *)
(*   t = "none"  Python None                                               *)

NaN == [t |-> "nan", s |-> "", n |-> 0, d |-> 0]
None == [t |-> "none", s |-> "", n |-> 0, d |-> 0]
Txt(s) == [t |-> "str", s |-> s, n |-> 0, d |-> 0]
Num(n) == [t |-> "int", s |-> "", n |-> n, d |-> 0]
Inf(sign) == [t |-> "inf", s |-> "", n |-> sign, d |-> 0]

\* the float n / 10^d in normal form
RECURSIVE Flt(_, _)
Flt(n, d) == IF d > 0 /\ n % 10 = 0 THEN Flt(n \div 10, d - 1)
             ELSE [t |-> "float", s |-> "", n |-> n, d |-> d]

Abs(n) == IF n < 0 THEN -n ELSE n

\* k as a string of exactly w digits
PadDigits(k, w) == LET ds == NatToStr(k)
                   IN  SubSeq("000000000000000000", 1, w - Len(ds)) \o ds

\* repr of the float n / 10^d below 10^-4, where Python writes an exponent: 1e-05,
\* 1.5e-05
ReprSmall(n, d) ==
    LET ds == NatToStr(n)
        e  == d - Len(ds) + 1
    IN  CharAt(ds, 1) \o (IF Len(ds) > 1 THEN "." \o SubSeq(ds, 2, Len(ds)) ELSE "")
        \o "e-" \o (IF e < 10 THEN "0" ELSE "") \o NatToStr(e)

\* Python str(value); floats are kept below 10^16, above which repr uses an exponent
str(v) ==
    CASE v.t = "str"   -> v.s
      [] v.t = "int"   -> (IF v.n < 0 THEN "-" ELSE "") \o NatToStr(Abs(v.n))
      [] v.t = "float" -> (IF v.n < 0 THEN "-" ELSE "")
                          \o (IF v.n # 0 /\ v.d - Len(NatToStr(Abs(v.n))) + 1 > 4
                              THEN ReprSmall(Abs(v.n), v.d)
                              ELSE NatToStr(Abs(v.n) \div Pow10(v.d)) \o "."
                                   \o (IF v.d = 0 THEN "0"
                                       ELSE PadDigits(Abs(v.n) % Pow10(v.d), v.d)))
      [] v.t = "inf"   -> IF v.n < 0 THEN "-inf" ELSE "inf"
      [] v.t = "nan"   -> "nan"
      [] OTHER         -> "None"

\* pandas.isna / pandas.notna on a scalar
isna(v) == v.t \in {"nan", "none"}
notna(v) == ~isna(v)

\* Python truth value
truthy(v) ==
    CASE v.t = "str"   -> v.s # ""
      [] v.t = "int"   -> v.n # 0
      [] v.t = "float" -> v.n # 0
      [] v.t = "inf"   -> TRUE
      [] v.t = "nan"   -> TRUE
      [] OTHER         -> FALSE

isinstance_float(v) == v.t \in {"float", "inf", "nan"}

\* DataFrame.fillna('') on an object frame
fillna(rows) == [r \in 1..Len(rows) |->
                    [c \in 1..Len(rows[r]) |-> IF isna(rows[r][c]) THEN Txt("") ELSE rows[r][c]]]

-----------------------------------------------------------------------------
(* Value normalizers.                                                      *)

\* an exception leaving a function: the value a call yields instead of a result
Raise(kind) == [t |-> "raise", s |-> kind, n |-> 0, d |-> 0]
raises(v) == v.t = "raise"

CountChar(c, s) == Cardinality({k \in 1..Len(s) : CharAt(s, k) = c})

\* s with its '.' removed
RECURSIVE DropDots(_)
DropDots(s) == IF s = "" THEN ""
               ELSE (IF CharAt(s, 1) = "." THEN "" ELSE CharAt(s, 1)) \o DropDots(SubSeq(s, 2, Len(s)))

\* whether float(s) succeeds, for s made of digits, '.' and '-'
IsFloatLiteral(s) ==
    LET body == IF startswith(s, "-") THEN SubSeq(s, 2, Len(s)) ELSE s
    IN  /\ CountChar("-", body) = 0
        /\ CountChar(".", body) <= 1
        /\ Len(DropDots(body)) >= 1

\* float(s) for such a literal
ParseFloat(s) ==
    LET neg  == startswith(s, "-")
        body == IF neg THEN SubSeq(s, 2, Len(s)) ELSE s
        dot  == IndexIn(".", body)
        frac == IF dot = 0 THEN 0 ELSE Len(body) - dot
        mag  == DigitsToNat(DropDots(body))
    IN  Flt(IF neg THEN -mag ELSE mag, frac)

\* float(cleaned) under `except (ValueError, TypeError): return None`
FloatOrNone(cleaned) == IF IsFloatLiteral(cleaned) THEN ParseFloat(cleaned) ELSE None

\* str_val.split(':')[0]
BeforeColon(s) == LET k == IndexIn(":", s) IN IF k = 0 THEN s ELSE SubSeq(s, 1, k - 1)
\* variant of clean_luas_value: the text after a colon is not cut off
clean_luas_value_NoColonSplit(value) ==
    IF isna(value) THEN None
    ELSE LET str_val == strip(str(value))
         IN  IF str_val = "" THEN None
             ELSE LET cleaned == SubNonNumeric(str_val)
                  IN  IF cleaned # "" THEN FloatOrNone(cleaned) ELSE None

clean_luas_value(value) ==
    IF isna(value) THEN None
    ELSE LET str_val == strip(str(value))
         IN  IF str_val = "" THEN None
             ELSE LET cleaned == SubNonNumeric(BeforeColon(str_val))
                  IN  IF cleaned # "" THEN FloatOrNone(cleaned) ELSE None
\* variant of clean_nilai_value: the currency symbol and the separators are not removed first
clean_nilai_value_KeepSeparators(value) ==
    IF isna(value) THEN None
    ELSE LET str_val == strip(str(value))
         IN  IF str_val = "" THEN None
             ELSE LET cleaned == SubNonNumeric(str_val)
                  IN  IF cleaned # "" THEN FloatOrNone(cleaned) ELSE None

clean_nilai_value(value) ==
    IF isna(value) THEN None
    ELSE LET str_val == strip(str(value))
         IN  IF str_val = "" THEN None
             ELSE LET cleaned == SubNonNumeric(SubCurrency(str_val))
                  IN  IF cleaned # "" THEN FloatOrNone(cleaned) ELSE None

MinYear == 1900
MaxYear == 2100

\* int(value) of a float: truncation toward zero; OverflowError on an infinity
IntOfFloat(v) ==
    IF v.t = "inf" THEN Raise("OverflowError")
    ELSE Num((IF v.n < 0 THEN -1 ELSE 1) * (Abs(v.n) \div Pow10(v.d)))

\* re.search(r'(\d{4})', s): start of the leftmost four consecutive digits, 0 when none
SearchFourDigits(s) ==
    LET hits == {k \in 1..(Len(s) - 3) : AllDigits(SubSeq(s, k, k + 3))}
    IN  IF hits = {} THEN 0 ELSE CHOOSE k \in hits : \A j \in hits : k <= j
\* variant of clean_tahun_value: a float is rounded to the nearest integer
clean_tahun_value_RoundsFloat(value) ==
    IF isna(value) THEN None
    ELSE IF isinstance_float(value)
         THEN (IF value.t = "inf" THEN Raise("OverflowError")
               ELSE Num((IF value.n < 0 THEN -1 ELSE 1)
                        * ((2 * Abs(value.n) + Pow10(value.d)) \div (2 * Pow10(value.d)))))
    ELSE LET str_val == strip(str(value))
             k       == SearchFourDigits(str_val)
         IN  IF k = 0 THEN None
             ELSE LET year == DigitsToNat(SubSeq(str_val, k, k + 3))
                  IN  IF MinYear <= year /\ year <= MaxYear THEN Num(year) ELSE None

clean_tahun_value(value) ==
    IF isna(value) THEN None
    ELSE IF isinstance_float(value) THEN IntOfFloat(value)
    ELSE LET str_val == strip(str(value))
             k       == SearchFourDigits(str_val)
         IN  IF k = 0 THEN None
             ELSE LET year == DigitsToNat(SubSeq(str_val, k, k + 3))
                  IN  IF MinYear <= year /\ year <= MaxYear THEN Num(year) ELSE None

-----------------------------------------------------------------------------
(* Records: a record is a function from the field names it holds to values. *)

Get(record, field) == IF field \in DOMAIN record THEN record[field] ELSE None

Put(record, field, value) ==
    [f \in (DOMAIN record) \cup {field} |-> IF f = field THEN value ELSE record[f]]

EmptyRecord == [f \in {} |-> None]

(* Status combiner.                                                        *)

status_fields == <<"status_tanah", "catatan", "k3", "pemetaan", "tanah_bangunan">>
\* variant of StatusNonValues: a dash is a status
StatusNonValuesNoDash == {"NAN", "NONE"}

StatusNonValues == {"NAN", "NONE", "-"}

\* the first loop of combine_status_fields over status_fields[k..]
RECURSIVE StatusParts(_, _)
StatusParts(row, k) ==
    IF k > Len(status_fields) THEN <<>>
    ELSE LET value   == Get(row, status_fields[k])
             str_val == upper(strip(str(value)))
         IN  (IF truthy(value) /\ ~isna(value) /\ str_val # "" /\ str_val \notin StatusNonValues
              THEN <<str_val>> ELSE <<>>) \o StatusParts(row, k + 1)

\* the second loop: parts[k..] without the values in seen, first occurrence kept
RECURSIVE UniqueParts(_, _, _)
UniqueParts(parts, k, seen) ==
    IF k > Len(parts) THEN <<>>
    ELSE IF parts[k] \in seen THEN UniqueParts(parts, k + 1, seen)
    ELSE <<parts[k]>> \o UniqueParts(parts, k + 1, seen \cup {parts[k]})

combine_status_fields(row) == join(" | ", UniqueParts(StatusParts(row, 1), 1, {}))

-----------------------------------------------------------------------------
(* Row classifier.                                                         *)

SKIP_KEYWORDS == <<"JUMLAH", "TOTAL", "SUB TOTAL", "GRAND TOTAL", "REKAPITULASI">>

MinNonEmpty == 3

\* the filter `pd.notna(v) and str(v).strip() != ''`
NonEmpty(v) == notna(v) /\ strip(str(v)) # ""

\* the non-empty cells of a row, in order
RECURSIVE NonEmptyCells(_)
NonEmptyCells(row) ==
    IF Len(row) = 0 THEN <<>>
    ELSE (IF NonEmpty(Head(row)) THEN <<Head(row)>> ELSE <<>>) \o NonEmptyCells(Tail(row))

\* ' '.join(str(v).upper() for the non-empty cells)
UpperRowStr(row) == LET cells == NonEmptyCells(row)
                    IN  join(" ", [k \in 1..Len(cells) |-> upper(str(cells[k]))])

\* ' '.join(str(v) for the non-empty cells)
RowStr(row) == LET cells == NonEmptyCells(row)
               IN  join(" ", [k \in 1..Len(cells) |-> str(cells[k])])

\* str(row.iloc[0]).strip().upper() if pd.notna(row.iloc[0]) else ''
FirstVal(row) == IF notna(row[1]) THEN upper(strip(str(row[1]))) ELSE ""
\* variant of is_data_row: the sentinel is tested before the cell count
is_data_row_SentinelFirst(row) ==
    LET row_str   == UpperRowStr(row)
        first_val == FirstVal(row)
    IN  IF first_val = "BEDA" THEN TRUE
        ELSE IF Len(NonEmptyCells(row)) < MinNonEmpty THEN FALSE
        ELSE IF Contains("LETAK", row_str) /\ Contains("ALAMAT", row_str) THEN FALSE
        ELSE IF Contains("PENGADAAN", row_str) /\ Contains("HAK", row_str) THEN FALSE
        ELSE IF \E k \in 1..Len(SKIP_KEYWORDS) : startswith(first_val, SKIP_KEYWORDS[k]) THEN FALSE
        ELSE TRUE

\* variant of is_data_row: a summary keyword anywhere in the row rejects it
is_data_row_KeywordAnywhere(row) ==
    LET row_str   == UpperRowStr(row)
        first_val == FirstVal(row)
    IN  IF Len(NonEmptyCells(row)) < MinNonEmpty THEN FALSE
        ELSE IF first_val = "BEDA" THEN TRUE
        ELSE IF Contains("LETAK", row_str) /\ Contains("ALAMAT", row_str) THEN FALSE
        ELSE IF Contains("PENGADAAN", row_str) /\ Contains("HAK", row_str) THEN FALSE
        ELSE IF \E k \in 1..Len(SKIP_KEYWORDS) : Contains(SKIP_KEYWORDS[k], row_str) THEN FALSE
        ELSE TRUE
\* variant of is_data_row: no rule for a row holding both LETAK and ALAMAT
is_data_row_NoAddressRule(row) ==
    LET row_str   == UpperRowStr(row)
        first_val == FirstVal(row)
    IN  IF Len(NonEmptyCells(row)) < MinNonEmpty THEN FALSE
        ELSE IF first_val = "BEDA" THEN TRUE
        ELSE IF Contains("PENGADAAN", row_str) /\ Contains("HAK", row_str) THEN FALSE
        ELSE IF \E k \in 1..Len(SKIP_KEYWORDS) : startswith(first_val, SKIP_KEYWORDS[k]) THEN FALSE
        ELSE TRUE

is_data_row(row) ==
    LET non_null_count == Len(NonEmptyCells(row))
        row_str        == UpperRowStr(row)
        first_val      == FirstVal(row)
    IN  IF non_null_count < MinNonEmpty THEN FALSE
        ELSE IF first_val = "BEDA" THEN TRUE
        ELSE IF Contains("LETAK", row_str) /\ Contains("ALAMAT", row_str) THEN FALSE
        ELSE IF Contains("PENGADAAN", row_str) /\ Contains("HAK", row_str) THEN FALSE
        ELSE IF \E k \in 1..Len(SKIP_KEYWORDS) : startswith(first_val, SKIP_KEYWORDS[k]) THEN FALSE
        ELSE TRUE

-----------------------------------------------------------------------------
(* Header locator.                                                         *)

search_terms == <<"Jenis Barang", "Nama Barang", "Satuan Kerja", "KECAMATAN">>

MinMatches == 2

\* sum(1 for term in search_terms if term in row_str)
Matches(row) == LET row_str == RowStr(row)
                IN  Cardinality({k \in 1..Len(search_terms) : Contains(search_terms[k], row_str)})

\* the scan of find_header_row from 0-based row idx on
RECURSIVE ScanHeader(_, _)
ScanHeader(df, idx) ==
    IF idx >= Len(df) THEN -1
    ELSE IF Matches(df[idx + 1]) >= MinMatches THEN idx
    ELSE ScanHeader(df, idx + 1)
\* variant of find_header_row: the row holding the most marker phrases
find_header_row_BestScore(df) ==
    LET hits == {k \in 0..(Len(df) - 1) : Matches(df[k + 1]) >= MinMatches}
        best == {k \in hits : \A j \in hits : Matches(df[j + 1]) <= Matches(df[k + 1])}
    IN  IF hits = {} THEN -1 ELSE CHOOSE k \in best : \A j \in best : k <= j

find_header_row(df) == ScanHeader(df, 0)

-----------------------------------------------------------------------------
(* Column mapper.                                                          *)

\* the dictionary COLUMN_MAPPING, in insertion order
COLUMN_MAPPING == <<
    <<"NO. KIB 2023", "no_kib">>,
    <<"No.", "no_urut">>,
    <<"Kode Lokasi", "kode_lokasi">>,
    <<"Satuan Kerja", "satuan_kerja">>,
    <<"Jenis Barang / Nama Barang", "jenis_barang_nama_barang">>,
    <<"Nomor", "nomor">>,
    <<"Luas (m2)", "luas">>,
    <<"Tahun", "tahun">>,
    <<"Status Tanah", "status_tanah">>,
    <<"Penggunaan", "nama_asset">>,
    <<"Asal Usul", "asal_usul">>,
    <<"Nilai / Harga", "nilai_harga">>,
    <<"Keterangan", "keterangan">>,
    <<"Kode Aset", "kode_aset">>,
    <<"JUMLAH BIDANG", "jumlah_bidang">>,
    <<"KECAMATAN", "kecamatan">>,
    <<"PEMETAAN ASET TANAH", "pemetaan">>,
    <<"CATATAN (TERMANFAATKAN/TERLANTAR)", "catatan">>,
    <<"K3 (MILIK WARGA/ADA KLAIM, TKD, DLL)", "k3">>,
    <<"TANAH (BANGUNAN/TANAH KOSONG)", "tanah_bangunan">>,
    <<"LAIN-LAIN", "lain_lain">>,
    <<"Letak/Alamat", "alamat">>,
    <<"Letak / Alamat", "alamat">>,
    <<"Location/Address", "alamat">> >>

\* excel_col.lower() for every key of COLUMN_MAPPING
LowerLabels == [k \in 1..Len(COLUMN_MAPPING) |-> lower(COLUMN_MAPPING[k][1])]

\* least element of a non-empty set of integers
Least(S) == CHOOSE k \in S : \A j \in S : k <= j

\* `candidate in COLUMN_MAPPING`: the entry whose key equals candidate, 0 when none
ExactEntry(candidate) ==
    LET hits == {k \in 1..Len(COLUMN_MAPPING) : COLUMN_MAPPING[k][1] = candidate}
    IN  IF hits = {} THEN 0 ELSE Least(hits)

\* the partial-match loop: the first entry that contains candidate or is contained in it, ignoring case
PartialEntry(candidate) ==
    LET cand == lower(candidate)
        hits == {k \in 1..Len(COLUMN_MAPPING) :
                    Contains(LowerLabels[k], cand) \/ Contains(cand, LowerLabels[k])}
    IN  IF hits = {} THEN 0 ELSE Least(hits)

\* the loop `for candidate in candidates` from candidate k on: the mapped field, "" for None
RECURSIVE MatchCandidates(_, _)
MatchCandidates(candidates, k) ==
    IF k > Len(candidates) THEN ""
    ELSE LET e == ExactEntry(candidates[k])
             p == PartialEntry(candidates[k])
         IN  IF e # 0 THEN COLUMN_MAPPING[e][2]
             ELSE IF p # 0 THEN COLUMN_MAPPING[p][2]
             ELSE MatchCandidates(candidates, k + 1)

\* whether the first row of df carries secondary headers
HasSecondaryHeaders(rows) ==
    /\ Len(rows) > 0
    /\ LET first_row_str == UpperRowStr(rows[1])
       IN  Contains("LETAK", first_row_str) /\ Contains("ALAMAT", first_row_str)

\* the candidate names of 0-based column idx: primary header, then secondary header
Candidates(cols, rows, idx) ==
    (IF strip(cols[idx + 1]) # "" THEN <<strip(cols[idx + 1])>> ELSE <<>>)
    \o (IF HasSecondaryHeaders(rows) /\ NonEmpty(rows[1][idx + 1])
        THEN <<strip(str(rows[1][idx + 1]))>> ELSE <<>>)

MappedField(cols, rows, idx) == MatchCandidates(Candidates(cols, rows, idx), 1)

\* map_columns(df) for df with column names cols and rows `rows`
map_columns(cols, rows) ==
    LET mapped == {idx \in 0..(Len(cols) - 1) : MappedField(cols, rows, idx) # ""}
    IN  [idx \in mapped |-> MappedField(cols, rows, idx)]

-----------------------------------------------------------------------------
(* Per-row processing of parse_excel_file.                                 *)

Placeholder == "(Tanpa Nama)"
KecamatanNulls == {"0", "-", ""}

\* the default header index used when find_header_row returns -1
DefaultHeaderIdx == 6

string_fields == <<"nama_asset", "kecamatan", "satuan_kerja", "status_tanah",
                   "catatan", "k3", "pemetaan", "tanah_bangunan", "kode_aset">>
\* variant of FillRecord: the cell of a column without a mapping is copied as well
RECURSIVE FillRecordEveryColumn(_, _, _, _)
FillRecordEveryColumn(record, row, cmap, idx) ==
    IF idx >= Len(row) THEN record
    ELSE FillRecordEveryColumn(Put(record, IF idx \in DOMAIN cmap THEN cmap[idx] ELSE "unmapped",
                                   row[idx + 1]),
                               row, cmap, idx + 1)

\* `for col_idx, field_name in col_map.items(): record[field_name] = row.iloc[col_idx]`,
\* from 0-based column idx on; a later column overwrites an earlier one
RECURSIVE FillRecord(_, _, _, _)
FillRecord(record, row, cmap, idx) ==
    IF idx >= Len(row) THEN record
    ELSE FillRecord(IF idx \in DOMAIN cmap THEN Put(record, cmap[idx], row[idx + 1]) ELSE record,
                    row, cmap, idx + 1)

RawRecord(row, cmap) == FillRecord(EmptyRecord, row, cmap, 0)

\* whether the kecamatan value is one of the null tokens
KecamatanIsNull(record) ==
    LET kecamatan == Get(record, "kecamatan")
    IN  kecamatan.t # "none" /\ strip(str(kecamatan)) \in KecamatanNulls

\* the record after `Clean kecamatan`
CleanKecamatan(record) ==
    IF KecamatanIsNull(record) THEN Put(record, "kecamatan", None) ELSE record
\* variant of NameBlank: a whitespace-only name counts as a name
NameBlankNoStrip(record) == ~truthy(Get(record, "nama_asset"))

\* `not nama or str(nama).strip() == ''`
NameBlank(record) ==
    LET nama == Get(record, "nama_asset")
    IN  ~truthy(nama) \/ strip(str(nama)) = ""

\* the row is dropped for want of a name: blank name and no kecamatan
NameMissing(record) == NameBlank(record) /\ ~truthy(Get(record, "kecamatan"))

\* the record after `Handle blank names`, for a row that is kept
FillName(record) ==
    IF NameBlank(record) THEN Put(record, "nama_asset", Txt(Placeholder)) ELSE record

CleanField(record, field, value) == IF field \in DOMAIN record THEN Put(record, field, value) ELSE record

\* the record after `Clean Numeric Fields`
CleanNumeric(record) ==
    LET r1 == CleanField(record, "luas", clean_luas_value(Get(record, "luas")))
        r2 == CleanField(r1, "nilai_harga", clean_nilai_value(Get(r1, "nilai_harga")))
    IN  CleanField(r2, "tahun", clean_tahun_value(Get(r2, "tahun")))

\* an exception raised while the numeric fields are cleaned
NumericRaises(record) == \E f \in DOMAIN CleanNumeric(record) : raises(CleanNumeric(record)[f])

\* the record after `Clean string fields`
CleanStrings(record) ==
    [f \in DOMAIN record |->
        IF (\E k \in 1..Len(string_fields) : string_fields[k] = f) /\ record[f].t # "none"
        THEN Txt(strip(str(record[f]))) ELSE record[f]]

\* the record appended for a row that is kept and raises nothing
FinishRecord(record) ==
    LET cleaned == CleanNumeric(FillName(record))
    IN  CleanStrings(Put(cleaned, "status_combined", Txt(combine_status_fields(cleaned))))

-----------------------------------------------------------------------------
(* The run of parse_excel_file.                                            *)

\* pd.DataFrame(all_data): a column whose values are numbers, or numbers and None,
\* becomes a float column once it holds a float or a None (an integer n becomes n.0,
\* None becomes NaN); every other column keeps its values
IsNumber(v) == v.t \in {"int", "float", "inf", "nan"}

AsFloat(v) == IF v.t = "int" THEN Flt(v.n, 0) ELSE IF v.t = "none" THEN NaN ELSE v

FrameValue(data, f, v) ==
    LET present == {data[k][f] : k \in 1..Len(data)} \ {None}
    IN  IF present # {} /\ \A w \in present : IsNumber(w)
        THEN IF (\A w \in present : w.t = "int") /\ (\A k \in 1..Len(data) : data[k][f] # None)
             THEN v ELSE AsFloat(v)
        ELSE v

DataFrame(data) ==
    [k \in 1..Len(data) |-> [f \in DOMAIN data[k] |-> FrameValue(data, f, data[k][f])]]

InitStats == [total_rows_read |-> 0, valid_rows |-> 0, skipped_rows |-> 0,
              sheets_processed |-> <<>>, errors |-> <<>>]
\* variant of Except: the handler returns the records built so far
ExceptKeepsRows(kind) ==
    /\ stats' = [stats EXCEPT !.errors = Append(@, "Error reading Excel file: " \o kind)]
    /\ result' = DataFrame(all_data)
    /\ pc' = "done"

\* the `except Exception` handler: record the error, return an empty frame
Except(kind) ==
    /\ stats' = [stats EXCEPT !.errors = Append(@, "Error reading Excel file: " \o kind)]
    /\ result' = <<>>
    /\ pc' = "done"

HasSheetA == \E k \in 1..Len(book) : book[k].name = "A"
SheetA == book[CHOOSE k \in 1..Len(book) : book[k].name = "A"].rows

\* what follows a successful pd.read_excel, up to sheets_processed
Loaded(rows) ==
    /\ df_raw' = fillna(rows)
    /\ stats' = [stats EXCEPT !.total_rows_read = Len(rows), !.sheets_processed = <<"Sheet A/0">>]
    /\ pc' = "find_header"
    /\ UNCHANGED <<web, other, book, header_row_idx, columns, df_data, col_map, i, all_data, all_idx,
                   skipped_by_filter, result>>

\* read_excel(sheet_name='A') succeeds
ReadSheetA ==
    /\ pc = "read"
    /\ HasSheetA
    /\ Loaded(SheetA)

\* read_excel(sheet_name='A') raises, read_excel(sheet_name=0) succeeds
ReadFirstSheet ==
    /\ pc = "read"
    /\ ~HasSheetA
    /\ Len(book) > 0
    /\ Loaded(book[1].rows)

\* both reads raise
ReadFails ==
    /\ pc = "read"
    /\ Len(book) = 0
    /\ Except("read_excel")
    /\ UNCHANGED <<web, other, book, df_raw, header_row_idx, columns, df_data, col_map, i, all_data,
                   all_idx, skipped_by_filter>>
\* variant of HeaderIdx: the top row is the default header
HeaderIdxTopRow(df) == IF find_header_row(df) = -1 THEN 0 ELSE find_header_row(df)

\* the header index used: the located one, or the default
HeaderIdx(df) == IF find_header_row(df) = -1 THEN DefaultHeaderIdx ELSE find_header_row(df)

\* find the header row, slice the data rows, name the columns
LocateHeader ==
    /\ pc = "find_header"
    /\ LET idx == HeaderIdx(df_raw)
       IN  /\ idx < Len(df_raw)
           /\ header_row_idx' = idx
           /\ df_data' = SubSeq(df_raw, idx + 2, Len(df_raw))
           /\ columns' = [c \in 1..Len(df_raw[idx + 1]) |-> strip(str(df_raw[idx + 1][c]))]
    /\ pc' = "map"
    /\ UNCHANGED <<web, other, book, df_raw, col_map, i, all_data, all_idx, skipped_by_filter, stats, result>>

\* df_raw.iloc[header_row_idx] raises IndexError
LocateHeaderFails ==
    /\ pc = "find_header"
    /\ HeaderIdx(df_raw) >= Len(df_raw)
    /\ header_row_idx' = HeaderIdx(df_raw)
    /\ Except("IndexError")
    /\ UNCHANGED <<web, other, book, df_raw, columns, df_data, col_map, i, all_data, all_idx, skipped_by_filter>>

MapColumns ==
    /\ pc = "map"
    /\ col_map' = map_columns(columns, df_data)
    /\ DOMAIN col_map' # {}
    /\ pc' = "rows"
    /\ UNCHANGED <<web, other, book, df_raw, header_row_idx, columns, df_data, i, all_data, all_idx,
                   skipped_by_filter, stats, result>>

\* `if not col_map`: report and return an empty frame
MapColumnsFails ==
    /\ pc = "map"
    /\ col_map' = map_columns(columns, df_data)
    /\ DOMAIN col_map' = {}
    /\ stats' = [stats EXCEPT !.errors = Append(@, "Could not map columns")]
    /\ result' = <<>>
    /\ pc' = "done"
    /\ UNCHANGED <<web, other, book, df_raw, header_row_idx, columns, df_data, i, all_data, all_idx,
                   skipped_by_filter>>

\* the record of the row the loop is at, after `Clean kecamatan`
CurrentRecord == CleanKecamatan(RawRecord(df_data[i + 1], col_map))

\* the row is rejected by is_data_row
SkipRow ==
    /\ pc = "rows"
    /\ i < Len(df_data)
    /\ ~is_data_row(df_data[i + 1])
    /\ stats' = [stats EXCEPT !.skipped_rows = @ + 1]
    /\ skipped_by_filter' = skipped_by_filter + 1
    /\ i' = i + 1
    /\ UNCHANGED <<web, other, book, pc, df_raw, header_row_idx, columns, df_data, col_map, all_data,
                   all_idx, result>>
\* variant of RejectRow: the row without a name is counted twice
RejectRowCountsTwice ==
    /\ pc = "rows"
    /\ i < Len(df_data)
    /\ is_data_row(df_data[i + 1])
    /\ NameMissing(CurrentRecord)
    /\ stats' = [stats EXCEPT !.skipped_rows = @ + 2]
    /\ i' = i + 1
    /\ UNCHANGED <<web, other, book, pc, df_raw, header_row_idx, columns, df_data, col_map, all_data,
                   all_idx, skipped_by_filter, result>>

\* the row has no name and no kecamatan
RejectRow ==
    /\ pc = "rows"
    /\ i < Len(df_data)
    /\ is_data_row(df_data[i + 1])
    /\ NameMissing(CurrentRecord)
    /\ stats' = [stats EXCEPT !.skipped_rows = @ + 1]
    /\ i' = i + 1
    /\ UNCHANGED <<web, other, book, pc, df_raw, header_row_idx, columns, df_data, col_map, all_data,
                   all_idx, skipped_by_filter, result>>

\* the row is cleaned and appended
EmitRow ==
    /\ pc = "rows"
    /\ i < Len(df_data)
    /\ is_data_row(df_data[i + 1])
    /\ ~NameMissing(CurrentRecord)
    /\ ~NumericRaises(FillName(CurrentRecord))
    /\ all_data' = Append(all_data, FinishRecord(CurrentRecord))
    /\ all_idx' = Append(all_idx, i + 1)
    /\ i' = i + 1
    /\ UNCHANGED <<web, other, book, pc, df_raw, header_row_idx, columns, df_data, col_map,
                   skipped_by_filter, stats, result>>

\* a normalizer raises while the row is cleaned: the handler ends the run
RowRaises ==
    /\ pc = "rows"
    /\ i < Len(df_data)
    /\ is_data_row(df_data[i + 1])
    /\ ~NameMissing(CurrentRecord)
    /\ NumericRaises(FillName(CurrentRecord))
    /\ Except("OverflowError")
    /\ UNCHANGED <<web, other, book, df_raw, header_row_idx, columns, df_data, col_map, i, all_data,
                   all_idx, skipped_by_filter>>
\* variant of Finish: valid_rows counts the rows consumed, not the records built
FinishCountsRows ==
    /\ pc = "rows"
    /\ i = Len(df_data)
    /\ stats' = [stats EXCEPT !.valid_rows = i]
    /\ result' = DataFrame(all_data)
    /\ pc' = "done"
    /\ UNCHANGED <<web, other, book, df_raw, header_row_idx, columns, df_data, col_map, i, all_data,
                   all_idx, skipped_by_filter>>

\* the loop is over: count the records and return them
Finish ==
    /\ pc = "rows"
    /\ i = Len(df_data)
    /\ stats' = [stats EXCEPT !.valid_rows = Len(all_data)]
    /\ result' = DataFrame(all_data)
    /\ pc' = "done"
    /\ UNCHANGED <<web, other, book, df_raw, header_row_idx, columns, df_data, col_map, i, all_data,
                   all_idx, skipped_by_filter>>

-----------------------------------------------------------------------------
(* Input workbooks.                                                        *)

MaxDataRows == 2

\* all sequences over S of length at most n
RECURSIVE SeqsUpTo(_, _)
SeqsUpTo(S, n) ==
    IF n = 0 THEN {<<>>}
    ELSE LET shorter == SeqsUpTo(S, n - 1)
         IN  shorter \cup {Append(q, x) : q \in {r \in shorter : Len(r) = n - 1}, x \in S}

Row5(a, b, c, d, e) == <<a, b, c, d, e>>

\* title rows above the header
BannerPlain == Row5(Txt("PEMERINTAH KOTA"), NaN, NaN, NaN, NaN)
BannerOneMarker == Row5(Txt("Daftar Nama Barang"), NaN, Txt("2023"), NaN, NaN)
BannerPrefixes == {<<>>, <<BannerOneMarker, BannerPlain>>}

\* header rows
HeaderStd == Row5(Txt("Satuan Kerja"), Txt("Penggunaan"), Txt("KECAMATAN"), Txt("Luas (m2)"), Txt("Tahun"))
HeaderTwoYears == Row5(Txt("Satuan Kerja"), Txt(" Penggunaan "), Txt("KECAMATAN"), Txt("Tahun"), Txt("Tahun Perolehan"))
HeaderNoName == Row5(Txt("No."), Txt("Satuan Kerja"), Txt("KECAMATAN"), Txt("Letak/Alamat"), Txt("Letak / Alamat"))
HeaderLowerCase == Row5(Txt("satuan kerja"), Txt("penggunaan"), Txt("kecamatan"), Txt("luas"), Txt("tahun"))
GeneralHeaders == {HeaderStd, HeaderTwoYears, HeaderNoName, HeaderLowerCase}

\* rows below the header
RowGood == Row5(Txt("Dinas"), Txt(" Kantor "), Txt("Gubeng"), Flt(1500, 0), Num(1999))
RowNoNameKec == Row5(Txt("Dinas"), NaN, Txt("Gubeng"), Txt("12:00:00"), Txt("Tahun 2005"))
RowNoNameNoKec == Row5(Txt("Dinas"), Txt(" "), Txt("-"), Num(5), Flt(20055, 1))
RowInfYear == Row5(Txt("Dinas"), Txt("Gudang"), Num(0), Txt("abc"), Inf(1))
RowSubtotal == Row5(Txt("JUMLAH"), Txt("Kantor"), Txt("Gubeng"), Num(3), NaN)
RowMarkers == Row5(Txt("Satuan Kerja"), Txt("Jenis Barang / Nama Barang"), Txt("KECAMATAN"), NaN, NaN)
GeneralRows == {RowGood, RowNoNameKec, RowNoNameNoKec, RowInfYear, RowSubtotal, RowMarkers}

GeneralSheets ==
    {p \o <<h>> \o data : p \in BannerPrefixes, h \in GeneralHeaders,
                          data \in SeqsUpTo(GeneralRows, MaxDataRows)}

\* one row below the standard header, for the row classifier
FirstCells == {Txt("BEDA"), Txt(" beda "), Txt("BEDAK"), Txt("Dinas"), Txt("JUMLAH TOTAL"),
               Txt(" Sub Total"), Txt("Rekapitulasi 2023"), NaN}
RestCells == {<<Txt("Kantor"), Txt("Gubeng"), Flt(1500, 0), Num(1999)>>,
              <<Txt("Kantor"), NaN, Txt(" "), NaN>>,
              <<Txt("Kantor"), Txt(" "), Txt("Gubeng"), NaN>>,
              <<Txt("Letak"), Txt("Alamat"), NaN, NaN>>,
              <<Txt("Letak"), Txt("Gubeng"), NaN, NaN>>,
              <<Txt("Pengadaan"), Txt("Hak Pakai"), NaN, NaN>>,
              <<Txt("Kantor"), Txt("Hak Pakai"), NaN, NaN>>,
              <<Txt("TOTAL"), Txt("JUMLAH"), Txt("Gubeng"), NaN>>}
ClassifierSheets == {<<HeaderStd, <<f>> \o r>> : f \in FirstCells, r \in RestCells}

\* one row whose area, currency and year cells hold arbitrary raw values
Row6(a, b, c, d, e, f) == <<a, b, c, d, e, f>>
HeaderFields == Row6(Txt("Satuan Kerja"), Txt("Penggunaan"), Txt("KECAMATAN"),
                     Txt("Luas (m2)"), Txt("Nilai / Harga"), Txt("Tahun"))
RawValues == {NaN, Txt("abc"), Txt("Rp 1.250.000"), Num(2005), Flt(19995, 1), Inf(1), Inf(-1)}
RowSubtotal6 == Row6(Txt("TOTAL"), Txt("Kantor"), Txt("Gubeng"), NaN, NaN, NaN)
FieldSheets ==
    {<<HeaderFields, RowSubtotal6, Row6(Txt("Dinas"), Txt(" Kantor "), Txt("Gubeng "), a, n, y)>> :
        a \in RawValues, n \in RawValues, y \in RawValues}

\* header rows at the default index, with and without a secondary header row
Row3(a, b, c) == <<a, b, c>>
Labels == {"Tahun", "Tahun Perolehan", "No.", "no.", "Nomor Register", "Letak / Alamat",
           "Alamat", "XYZ"}
LastLabels == {"Penggunaan", ""}
SecondaryRows == {Row3(Txt("Letak/Alamat"), Txt("Kode Aset"), Txt("No.")),
                  Row3(Txt("Alamat"), Txt("Letak"), NaN)}
RowThree == Row3(Num(1990), Num(2001), Txt("Balai"))
Banner3 == Row3(Txt("PEMERINTAH KOTA"), NaN, NaN)
MapSheets ==
    {[k \in 1..DefaultHeaderIdx |-> Banner3] \o <<Row3(Txt(a), Txt(b), Txt(c))>> \o sec \o <<RowThree>> :
        a \in Labels, b \in Labels, c \in LastLabels,
        sec \in {<<>>} \cup {<<s>> : s \in SecondaryRows}}

\* a secondary header row whose first cell is the sentinel BEDA, with three and with
\* two non-empty cells, under a header with a name and a district column and under one
\* with neither
SentinelRows == {Row3(Txt("BEDA"), Txt("Letak/Alamat"), Txt("Kode Aset")),
                 Row3(Txt("BEDA"), Txt("Letak/Alamat"), NaN)}
SentinelSheets ==
    {[k \in 1..DefaultHeaderIdx |-> Banner3]
        \o <<Row3(Txt("No."), Txt("Penggunaan"), Txt("KECAMATAN")), s, RowThree>> : s \in SentinelRows}
    \cup {[k \in 1..DefaultHeaderIdx |-> Banner3]
            \o <<Row3(Txt("No."), Txt("Kode Aset"), Txt("Alamat")),
                 Row3(Txt("BEDA"), Txt("Letak"), Txt("Alamat")), RowThree>>}

\* sheets without a locatable header row
HeaderUnmappable == Row5(Txt("XYZ"), NaN, Txt("QQQ"), Num(7), NaN)
FallbackSheets ==
    {[k \in 1..n |-> BannerPlain] \o rest :
        n \in {DefaultHeaderIdx - 1, DefaultHeaderIdx},
        rest \in {<<>>, <<HeaderLowerCase>>, <<HeaderUnmappable>>,
                  <<HeaderLowerCase, RowGood>>, <<HeaderUnmappable, RowGood>>,
                  <<HeaderLowerCase, RowSubtotal, RowGood, RowNoNameKec>>}}

\* one banner row, a header row with five recognized labels, a stray secondary-header
\* row, a subtotal row and three genuine data rows
RowStray == Row5(Txt("No."), Txt("Penggunaan"), Txt("Letak/Alamat"), NaN, NaN)
RowStrayShort == Row5(NaN, NaN, Txt("Letak / Alamat"), NaN, NaN)
RowSubtotalLong == Row5(Txt("JUMLAH KESELURUHAN"), NaN, Txt("Gubeng"), Flt(1500, 0), NaN)
RowGoodToo == Row5(Txt("Dinas"), Txt("Gudang"), Txt("Sawahan"), Txt("1500 m2"), Txt("2010"))
GenuineRows == {RowGood, RowGoodToo, RowNoNameKec}
ExampleSheets ==
    {<<BannerPlain, h, stray, total, r1, r2, r3>> :
        h \in {HeaderStd, HeaderTwoYears, HeaderNoName},
        stray \in {RowStray, RowStrayShort},
        total \in {RowSubtotal, RowSubtotalLong},
        r1 \in GenuineRows, r2 \in GenuineRows, r3 \in GenuineRows}
\* one accepted, named row whose area cell alone varies
AreaValues == {Txt("1500 m2"), Txt("12.5 m2"), Txt("6153:00:00"), Txt("12:30 m2"), Txt("a:5"),
               Txt("abc"), Txt(" "), NaN, Txt("-"), Txt("1.2.3"), Txt("-3.5"), Txt(" 75 "),
               Txt("1,5 ha"), Num(40), Flt(125, 1), Flt(1, 5), Txt("75\r"),
               Txt("75 "), Txt("۱۲.۵ m2")}
AreaSheets ==
    {<<HeaderFields, Row6(Txt("Dinas"), Txt("Kantor"), Txt("Gubeng"), a, NaN, NaN)>> : a \in AreaValues}

\* one accepted, named row whose currency cell alone varies
CurrencyValues == {Txt("Rp 1.250.000"), Txt("Rp. 1,250,000"), Txt("-"), Txt(" "), NaN,
                   Txt("Rp -2.500"), Txt("-500"), Txt("Rp"), Txt("5-3"), Txt("IDR 100"),
                   Txt("12.5"), Flt(1250000, 0), Num(1250000), Num(0), Flt(15, 6),
                   Txt("Rp 1.000"), Txt("Rp ۲۵۰۰")}
CurrencySheets ==
    {<<HeaderFields, Row6(Txt("Dinas"), Txt("Kantor"), Txt("Gubeng"), NaN, n, NaN)>> : n \in CurrencyValues}

\* one accepted, named row whose year cell alone varies
YearValues == {Txt("Tahun 1999"), Txt("31"), Txt("3099"), Txt("20051"), Num(20051), Num(2005),
               Txt("1899"), Txt("2100"), Txt("12-05-2010"), Txt("12345 1999"), NaN,
               Flt(2005, 0), Flt(19999, 1), Flt(15005, 1), Flt(-25, 1),
               Txt("۱۹۹۹"), Txt("2005")}
YearSheets ==
    {<<HeaderFields, Row6(Txt("Dinas"), Txt("Kantor"), Txt("Gubeng"), NaN, NaN, y)>> : y \in YearValues}

\* one accepted row under a header with the five status columns
Row8(a, b, c, d, e, f, g, h) == <<a, b, c, d, e, f, g, h>>
HeaderStatus == Row8(Txt("Satuan Kerja"), Txt("Penggunaan"), Txt("KECAMATAN"), Txt("Status Tanah"),
                     Txt("CATATAN (TERMANFAATKAN/TERLANTAR)"),
                     Txt("K3 (MILIK WARGA/ADA KLAIM, TKD, DLL)"),
                     Txt("PEMETAAN ASET TANAH"), Txt("TANAH (BANGUNAN/TANAH KOSONG)"))
StatusTanahValues == {Txt("TERMANFAATKAN"), Txt("Hak Pakai"), Txt("-"), NaN, Txt(" sisa straße")}
CatatanValues == {Txt("TERMANFAATKAN"), Txt(" termanfaatkan "), Txt("nan"), Num(0)}
K3Values == {Txt("TKD"), Txt(" None "), Txt(" "), Num(5)}
LastStatusValues == {<<NaN, NaN>>, <<Txt("tkd"), Txt("Termanfaatkan")>>,
                     <<Txt("BELUM TERPETAKAN"), Txt("-")>>}
StatusSheets ==
    {<<HeaderStatus, Row8(Txt("Dinas"), Txt("TERLANTAR"), Txt("Gubeng"), s, c, k, l[1], l[2])>> :
        s \in StatusTanahValues, c \in CatatanValues, k \in K3Values, l \in LastStatusValues}

\* one row whose name and district cells vary
NameValues == {Txt("Kantor"), Txt(" "), Txt("\r"), NaN, Txt(" ")}
DistrictValues == {Txt("Gubeng"), Txt(" - "), Txt("0"), Txt(" 0 "), Txt("00"), Num(0), Flt(0, 0), Txt(""), NaN,
                   Txt("-\r\n"), Txt("Gubeng "), Txt("-")}
DistrictSheets ==
    {<<HeaderStd, Row5(Txt("Dinas"), n, k, Flt(1500, 0), Num(1999))>> :
        n \in NameValues, k \in DistrictValues}

\* a banner row, a header row written in upper case or in title case, and a data row
HeaderUpperCase == Row5(Txt("SATUAN KERJA"), Txt("PENGGUNAAN"), Txt("KECAMATAN"), Txt("LUAS"), Txt("TAHUN"))
HeaderTitleCase == Row5(Txt("Satuan Kerja"), Txt("Penggunaan"), Txt("Kecamatan"), Txt("Luas"), Txt("Tahun"))
CaseSheets == {<<BannerPlain, h, RowGood>> : h \in {HeaderUpperCase, HeaderTitleCase}}

Sheets == GeneralSheets \cup ClassifierSheets \cup FieldSheets \cup MapSheets
          \cup FallbackSheets \cup ExampleSheets \cup AreaSheets \cup CurrencySheets
          \cup YearSheets \cup StatusSheets \cup DistrictSheets \cup CaseSheets
          \cup SentinelSheets

\* workbooks: a sheet named 'A', no sheet named 'A', a sheet named 'A' behind another
\* sheet, and an unreadable file
Books == {<<[name |-> "A", rows |-> s]>> : s \in Sheets}
         \cup {<<[name |-> "Sheet1", rows |-> s]>> : s \in FallbackSheets}
         \cup {<<[name |-> "Sheet1", rows |-> <<HeaderStd, RowGood>>],
                  [name |-> "A", rows |-> <<HeaderStd, RowSubtotal, RowGoodToo>>]>>}
         \cup {<<>>}

-----------------------------------------------------------------------------
\* no second invocation is running
NoInvocation == [pc |-> "none"]

\* parse_excel_file is called directly: no upload request is being handled
NoRequest ==
    /\ hpc = "none"
    /\ assets = <<>>
    /\ assets_before = <<>>
    /\ session_assets = <<>>
    /\ upload_record = [status |-> "none"]
    /\ file_exists = FALSE
    /\ exc = ""
    /\ write_lock = FALSE

Init ==
    /\ book \in Books
    /\ pc = "read"
    /\ df_raw = <<>>
    /\ header_row_idx = -1
    /\ columns = <<>>
    /\ df_data = <<>>
    /\ col_map = EmptyRecord
    /\ i = 0
    /\ all_data = <<>>
    /\ all_idx = <<>>
    /\ skipped_by_filter = 0
    /\ stats = InitStats
    /\ result = <<>>
    /\ other = NoInvocation
    /\ NoRequest

Next ==
    \/ ReadSheetA
    \/ ReadFirstSheet
    \/ ReadFails
    \/ LocateHeader
    \/ LocateHeaderFails
    \/ MapColumns
    \/ MapColumnsFails
    \/ SkipRow
    \/ RejectRow
    \/ EmitRow
    \/ RowRaises
    \/ Finish

Spec == Init /\ [][Next]_vars

-----------------------------------------------------------------------------
(* Properties of a run.                                                    *)

\* the sheet pd.read_excel delivers for the workbook
SheetRead == IF HasSheetA THEN SheetA ELSE book[1].rows

\* the run has returned
Returned == pc = "done"

\* number of rows among the first n rows below the header that the loop rejects
RECURSIVE RejectedAmong(_)
RejectedAmong(n) ==
    IF n = 0 THEN 0
    ELSE RejectedAmong(n - 1)
         + (IF ~is_data_row(df_data[n])
               \/ NameMissing(CleanKecamatan(RawRecord(df_data[n], col_map)))
            THEN 1 ELSE 0)

\* C1: whatever step fails, a run that reports an error returns no records, and
\* records are returned only once every row below the header has been processed;
\* every exception ends in the handler, so the run always returns.
C1_ErrorMeansEmptyResult ==
    /\ stats.errors # <<>> => Returned /\ result = <<>>
    /\ result # <<>> =>
          /\ Returned
          /\ stats.errors = <<>>
          /\ i = Len(df_data)
          /\ df_data = SubSeq(df_raw, header_row_idx + 2, Len(df_raw))
          /\ Len(result) + stats.skipped_rows = Len(df_raw) - header_row_idx - 1
    /\ ~Returned => result = <<>>

\* a run that fails at a data row after it had already built a record
C1_Witness ==
    /\ Returned
    /\ stats.errors # <<>>
    /\ all_data # <<>>
    /\ i < Len(df_data)
    /\ result = <<>>

\* C2: after every run valid_rows is the number of records returned, skipped_rows the
\* number of rows below the header that were rejected and total_rows_read the number
\* of rows of the sheet read; a sheet of one banner row, one header row with five
\* recognized labels, one stray secondary-header row, one JUMLAH subtotal row and
\* three genuine data rows gives valid_rows = 3, skipped_rows = 2, total_rows_read = 7.
C2_StatsCountRows ==
    Returned =>
        /\ stats.valid_rows = Len(result)
        /\ stats.skipped_rows = RejectedAmong(i)
        /\ Len(book) > 0 => stats.total_rows_read = Len(SheetRead)
        /\ (Len(book) > 0 /\ SheetRead \in ExampleSheets) =>
              /\ stats.valid_rows = 3
              /\ stats.skipped_rows = 2
              /\ stats.total_rows_read = 7

\* the run over such a sheet has returned its three records
C2_Witness ==
    /\ Returned
    /\ Len(book) > 0
    /\ SheetRead \in ExampleSheets
    /\ Len(result) = 3
    /\ stats.skipped_rows = 2

\* the value the name column of the row behind record k held in the sheet
OriginalName(k) == Get(RawRecord(df_data[all_idx[k]], col_map), "nama_asset")

\* C3: every emitted record has a non-empty asset name: the trimmed non-blank
\* original value or the placeholder, never absent, null, empty or blank.
C3_NameNeverEmpty ==
    \A k \in 1..Len(all_data) :
        /\ "nama_asset" \in DOMAIN all_data[k]
        /\ LET nama == all_data[k]["nama_asset"]
           IN  /\ nama.t = "str"
               /\ strip(nama.s) # ""
               /\ nama.s = strip(nama.s)
               /\ \/ nama.s = Placeholder
                  \/ /\ OriginalName(k).t # "none"
                     /\ strip(str(OriginalName(k))) # ""
                     /\ nama.s = strip(str(OriginalName(k)))

\* a run that emitted one record under the placeholder and one under its trimmed name
C3_Witness ==
    /\ Returned
    /\ \E k \in 1..Len(result) : result[k]["nama_asset"] = Txt(Placeholder)
    /\ \E k \in 1..Len(result) :
          /\ result[k]["nama_asset"] = Txt("Kantor")
          /\ OriginalName(k) = Txt(" Kantor ")

\* the header has been located and every column mapped
Mapped == pc = "rows" \/ (Returned /\ DOMAIN col_map # {})

\* the record of row r of df_data before the name is checked
RecordOf(r) == CleanKecamatan(RawRecord(df_data[r], col_map))

\* row r of df_data is behind one of the records built
Emitted(r) == \E k \in 1..Len(all_data) : all_idx[k] = r

NumericFields == {"luas", "nilai_harga", "tahun"}

\* C4: an unparseable area, currency or year value never rejects a row and never
\* fails the sheet: every row the classifier accepts and that has a name is emitted,
\* with each numeric field a number or null (None, or NaN in a numeric column of
\* the frame), and the run reports no error.
C4_BadValueNeverFailsSheet ==
    (Returned /\ DOMAIN col_map # {}) =>
        \A r \in 1..Len(df_data) :
            (is_data_row(df_data[r]) /\ ~NameBlank(RecordOf(r))) =>
                /\ stats.errors = <<>>
                /\ Emitted(r)
                /\ \A k \in 1..Len(result) : \A f \in NumericFields \cap DOMAIN result[k] :
                      result[k][f].t \in {"none", "nan", "int", "float"}

\* the lowest column position mapped to field f
FirstColumnOf(f) == Least({idx \in DOMAIN col_map : col_map[idx] = f})

\* C5: no canonical field is the target of more than one column position; when two
\* header columns resolve to the same field the first one wins, and the records take
\* the value of the field from that first column.
C5_OneColumnPerField ==
    Mapped =>
        /\ \A a \in DOMAIN col_map : \A b \in DOMAIN col_map : col_map[a] = col_map[b] => a = b
        /\ \A k \in 1..Len(all_data) : \A idx \in DOMAIN col_map :
              RawRecord(df_data[all_idx[k]], col_map)[col_map[idx]]
                  = df_data[all_idx[k]][FirstColumnOf(col_map[idx]) + 1]

\* the candidates of a column that have an exact entry, and those that have a partial one
ExactCandidates(cands) == {k \in 1..Len(cands) : ExactEntry(cands[k]) # 0}
PartialCandidates(cands) == {k \in 1..Len(cands) : PartialEntry(cands[k]) # 0}

\* C6: a column is resolved by exact match against the known labels first, and only
\* when none of its candidate labels matches exactly by case-insensitive containment,
\* first table entry first; so an exact secondary header is not overridden by a
\* substring match of the primary header.
C6_ExactBeforeSubstring ==
    Mapped =>
        \A idx \in 0..(Len(columns) - 1) :
            LET cands == Candidates(columns, df_data, idx)
            IN  IF ExactCandidates(cands) # {}
                THEN /\ idx \in DOMAIN col_map
                     /\ col_map[idx] = COLUMN_MAPPING[ExactEntry(cands[Least(ExactCandidates(cands))])][2]
                ELSE IF PartialCandidates(cands) # {}
                THEN /\ idx \in DOMAIN col_map
                     /\ col_map[idx] = COLUMN_MAPPING[PartialEntry(cands[Least(PartialCandidates(cands))])][2]
                ELSE idx \notin DOMAIN col_map

\* the 0-based indices of the rows holding at least MinMatches marker phrases
HeaderLikeRows == {k \in 0..(Len(df_raw) - 1) : Matches(df_raw[k + 1]) >= MinMatches}

\* C7: find_header_row returns the first row, from the top, holding at least two
\* marker phrases, never a later one with more markers, and -1 exactly when no row
\* holds two.
C7_FirstHeaderRow ==
    pc \in {"find_header", "map"} =>
        /\ find_header_row(df_raw) = -1 <=> HeaderLikeRows = {}
        /\ HeaderLikeRows # {} => find_header_row(df_raw) = Least(HeaderLikeRows)
        /\ (pc = "map" /\ HeaderLikeRows # {}) => header_row_idx = Least(HeaderLikeRows)

\* the header located lies below the top and above a row holding more markers
C7_Witness ==
    /\ pc = "map"
    /\ header_row_idx > 0
    /\ \E k \in HeaderLikeRows :
          /\ k > header_row_idx
          /\ Matches(df_raw[k + 1]) > Matches(df_raw[header_row_idx + 1])

\* C8: when no header row is located the run goes on with row 6 as the header and
\* the rows from 7 on as data; when the sheet has fewer than 7 rows, or no column of
\* row 6 maps to a field, the run returns no records and reports an error.
C8_FallbackHeader ==
    (pc \notin {"read", "find_header"} /\ Len(book) > 0 /\ HeaderLikeRows = {}) =>
        /\ Len(df_raw) >= 7 =>
              /\ header_row_idx = 6
              /\ df_data = SubSeq(df_raw, 8, Len(df_raw))
              /\ columns = [c \in 1..Len(df_raw[7]) |-> strip(str(df_raw[7][c]))]
              /\ (Returned /\ DOMAIN col_map # {}) => stats.errors = <<>> /\ result = all_data
        /\ (Returned /\ (Len(df_raw) < 7 \/ DOMAIN col_map = {})) =>
              /\ result = <<>>
              /\ stats.errors # <<>>

\* a run without a locatable header that returned records read below row 6
C8_Witness ==
    /\ Returned
    /\ Len(book) > 0
    /\ HeaderLikeRows = {}
    /\ header_row_idx = 6
    /\ result # <<>>

\* the row the loop is at
AtRow == pc = "rows" /\ i < Len(df_data)

\* C9: a row with fewer than 3 non-empty cells is rejected first, even when its
\* first cell is BEDA; a row with at least 3 non-empty cells whose first cell,
\* trimmed and uppercased, is BEDA is accepted whatever else it holds.
C9_CountThenSentinel ==
    AtRow =>
        LET row == df_data[i + 1]
        IN  /\ Len(NonEmptyCells(row)) < 3 => ~is_data_row(row)
            /\ (Len(NonEmptyCells(row)) >= 3 /\ FirstVal(row) = "BEDA") => is_data_row(row)

\* a row with first cell BEDA that holds LETAK and ALAMAT was emitted
C9_Witness ==
    /\ pc = "rows"
    /\ \E k \in 1..Len(all_data) :
          LET row == df_data[all_idx[k]]
          IN  /\ FirstVal(row) = "BEDA"
              /\ Contains("LETAK", UpperRowStr(row))
              /\ Contains("ALAMAT", UpperRowStr(row))

\* the three rejection rules that follow the sentinel rule
SecondaryHeaderLike(row) == Contains("LETAK", UpperRowStr(row)) /\ Contains("ALAMAT", UpperRowStr(row))
ProcurementLike(row) == Contains("PENGADAAN", UpperRowStr(row)) /\ Contains("HAK", UpperRowStr(row))
SummaryLike(row) == \E kw \in {"JUMLAH", "TOTAL", "SUB TOTAL", "GRAND TOTAL", "REKAPITULASI"} :
                        startswith(FirstVal(row), kw)

\* C10: a row with at least 3 non-empty cells whose first cell is not BEDA is
\* rejected exactly when it holds LETAK and ALAMAT, or PENGADAAN and HAK, or its
\* first cell starts with a summary keyword; a keyword elsewhere does not reject it.
C10_RejectionRules ==
    AtRow =>
        LET row == df_data[i + 1]
        IN  (Len(NonEmptyCells(row)) >= 3 /\ FirstVal(row) # "BEDA") =>
                (~is_data_row(row) <=>
                    (SecondaryHeaderLike(row) \/ ProcurementLike(row) \/ SummaryLike(row)))

\* a row holding summary keywords outside its first cell was emitted
C10_Witness ==
    \E k \in 1..Len(all_data) :
        LET row == df_data[all_idx[k]]
        IN  /\ FirstVal(row) = "DINAS"
            /\ Contains("TOTAL", UpperRowStr(row))
            /\ Contains("JUMLAH", UpperRowStr(row))

\* the value the column mapped to field f held in the sheet, for the row behind record k
OriginalValue(k, f) == Get(RawRecord(df_data[all_idx[k]], col_map), f)

\* s is a decimal number followed by a space and the unit m2
NumberWithUnit(s) ==
    /\ Len(s) > 3
    /\ SubSeq(s, Len(s) - 2, Len(s)) = " m2"
    /\ LET number == SubSeq(s, 1, Len(s) - 3)
       IN  /\ \A j \in 1..Len(number) : IsDigit(CharAt(number, j)) \/ CharAt(number, j) = "."
           /\ IsFloatLiteral(number)

\* C11: an area cell holding a decimal number followed by a space and the unit m2
\* is normalized to the value of the leading number: "1500 m2" gives 1500.0.
C11_UnitTextDropped ==
    \A k \in 1..Len(all_data) :
        LET raw == OriginalValue(k, "luas")
        IN  (raw.t = "str" /\ NumberWithUnit(raw.s)) =>
                all_data[k]["luas"] = ParseFloat(SubSeq(raw.s, 1, Len(raw.s) - 3))

\* C12: the area normalizer gives null for an empty, blank or absent value and for
\* text that keeps no digit, '.' or '-'; for text with a colon the result depends only
\* on the part before the first colon ("6153:00:00" gives 6153.0); otherwise it is
\* the float read from the digits, '.' and '-' of the text, or null when these do not
\* form a number ("-", "1.2.3").
C12_AreaNormalizer ==
    /\ clean_luas_value(NaN) = None
    /\ clean_luas_value(None) = None
    /\ \A k \in 1..Len(all_data) : "luas" \in DOMAIN all_data[k] =>
          LET raw  == OriginalValue(k, "luas")
              out  == all_data[k]["luas"]
              text == strip(str(raw))
              kept == SubNonNumeric(text)
          IN  /\ text = "" => out = None
              /\ (raw.t = "str" /\ SubNonNumeric(BeforeColon(text)) = "") => out = None
              /\ (raw.t = "str" /\ Contains(":", raw.s)) =>
                    out = clean_luas_value(Txt(BeforeColon(raw.s)))
              /\ (raw.t = "str" /\ ~Contains(":", raw.s) /\ kept # "") =>
                    out = (IF IsFloatLiteral(kept) THEN ParseFloat(kept) ELSE None)
              /\ raw = Txt("6153:00:00") => out = Flt(6153, 0)
              /\ raw \in {Txt("abc"), Txt("-"), Txt("1.2.3")} => out = None

\* a record whose area cell held the duration-like text 6153:00:00
C12_Witness ==
    \E k \in 1..Len(all_data) :
        /\ OriginalValue(k, "luas") = Txt("6153:00:00")
        /\ all_data[k]["luas"] = Flt(6153, 0)

\* the digits of s, in order
RECURSIVE DigitsOf(_)
DigitsOf(s) == IF s = "" THEN ""
               ELSE (IF IsDigit(CharAt(s, 1)) THEN CharAt(s, 1) ELSE "") \o DigitsOf(SubSeq(s, 2, Len(s)))

\* s is made of the currency symbol Rp, whitespace, digits and thousands separators
CurrencyText(s) ==
    /\ DigitsOf(s) # ""
    /\ \A j \in 1..Len(s) : IsDigit(CharAt(s, j)) \/ CharAt(s, j) \in {"R", "p", ".", ",", " "}

\* C13: the currency normalizer gives null for an empty or absent value and for "-";
\* for text made of Rp, whitespace, digits and thousands separators it gives the number
\* formed by the digits ("Rp 1.250.000" gives 1250000.0); what is parsed is the text
\* left once the currency symbol, the separators and whitespace are removed, with its
\* minus sign kept.
C13_CurrencyNormalizer ==
    /\ clean_nilai_value(NaN) = None
    /\ clean_nilai_value(None) = None
    /\ \A k \in 1..Len(all_data) : "nilai_harga" \in DOMAIN all_data[k] =>
          LET raw  == OriginalValue(k, "nilai_harga")
              out  == all_data[k]["nilai_harga"]
              text == strip(str(raw))
              bare == SubCurrency(text)
              kept == SubNonNumeric(bare)
          IN  /\ text = "" => out = None
              /\ raw = Txt("-") => out = None
              /\ raw = Txt("Rp 1.250.000") => out = Flt(1250000, 0)
              /\ (raw.t = "str" /\ CurrencyText(raw.s)) => out = Flt(DigitsToNat(DigitsOf(raw.s)), 0)
              /\ (raw.t = "str" /\ Len(bare) > 1 /\ CharAt(bare, 1) = "-"
                    /\ AllDigits(SubSeq(bare, 2, Len(bare)))) =>
                    out = Flt(-DigitsToNat(SubSeq(bare, 2, Len(bare))), 0)
              /\ (raw.t = "str" /\ text # "") =>
                    out = (IF kept # "" /\ IsFloatLiteral(kept) THEN ParseFloat(kept) ELSE None)

\* a record whose currency cell held a negative amount with symbol and separator
C13_Witness ==
    \E k \in 1..Len(all_data) :
        /\ OriginalValue(k, "nilai_harga") = Txt("Rp -2.500")
        /\ all_data[k]["nilai_harga"] = Flt(-2500, 0)

\* the starts of the maximal digit runs of s that are exactly four digits long
FourDigitRuns(s) ==
    {j \in 1..(Len(s) - 3) :
        /\ AllDigits(SubSeq(s, j, j + 3))
        /\ (j = 1 \/ ~IsDigit(CharAt(s, j - 1)))
        /\ (j + 3 = Len(s) \/ ~IsDigit(CharAt(s, j + 4)))}

\* the year of the first run of exactly four digits of s when it lies in the range, else null
YearOfFirstRun(s) ==
    IF FourDigitRuns(s) = {} THEN None
    ELSE LET year == DigitsToNat(SubSeq(s, Least(FourDigitRuns(s)), Least(FourDigitRuns(s)) + 3))
         IN  IF MinYear <= year /\ year <= MaxYear THEN Num(year) ELSE None

\* C14: for a year cell that is not a float the year normalizer looks at the first run
\* of exactly four digits of the text: the run as an integer when it lies in
\* [1900, 2100], null otherwise; "Tahun 1999" gives 1999, "31" and "3099" give null,
\* and a longer digit run such as "20051" or the integer 20051 yields no year.
C14_ExactlyFourDigits ==
    \A k \in 1..Len(all_data) : "tahun" \in DOMAIN all_data[k] =>
        LET raw == OriginalValue(k, "tahun")
            out == all_data[k]["tahun"]
        IN  /\ raw.t \in {"str", "int"} => out = YearOfFirstRun(strip(str(raw)))
            /\ raw = Txt("Tahun 1999") => out = Num(1999)
            /\ raw \in {Txt("31"), Txt("3099"), Txt("20051"), Num(20051)} => out = None

\* C15: a year cell that holds a finite float is truncated to an integer (2005.0
\* gives 2005, 1999.9 gives 1999) whether or not the result lies in [1900, 2100], and
\* the year of a record lies outside that range only when the cell held a float.
C15_FloatYearTruncated ==
    \A k \in 1..Len(all_data) : "tahun" \in DOMAIN all_data[k] =>
        LET raw == OriginalValue(k, "tahun")
            out == all_data[k]["tahun"]
        IN  /\ raw.t = "float" =>
                  /\ out.t = "int"
                  /\ Abs(out.n) * Pow10(raw.d) <= Abs(raw.n)
                  /\ Abs(raw.n) < (Abs(out.n) + 1) * Pow10(raw.d)
                  /\ (out.n # 0 => (out.n < 0 <=> raw.n < 0))
            /\ raw = Flt(2005, 0) => out = Num(2005)
            /\ raw = Flt(19999, 1) => out = Num(1999)
            /\ (out.t = "int" /\ (out.n < MinYear \/ out.n > MaxYear)) => raw.t = "float"

\* a record whose year, truncated from a float cell, lies below the range
C15_Witness ==
    \E k \in 1..Len(all_data) :
        /\ OriginalValue(k, "tahun") = Flt(15005, 1)
        /\ all_data[k]["tahun"] = Num(1500)

\* the status fields in their fixed order, and the values record k was given for them
StatusOrder == <<"status_tanah", "catatan", "k3", "pemetaan", "tanah_bangunan">>
StatusValue(k, j) == OriginalValue(k, StatusOrder[j])

\* a status value trimmed and uppercased
NormStatus(v) == upper(strip(str(v)))

\* a value that is present, not empty and no sentinel
Contributes(v) ==
    /\ notna(v)
    /\ NormStatus(v) \notin {"", "NAN", "NONE", "-"}

\* slot j holds the first occurrence of its value among the contributing slots
FirstOccurrence(k, j) ==
    /\ Contributes(StatusValue(k, j))
    /\ \A h \in 1..(j - 1) :
          Contributes(StatusValue(k, h)) => NormStatus(StatusValue(k, h)) # NormStatus(StatusValue(k, j))

\* the values of the first occurrences from slot j on, in field order
RECURSIVE DistinctFrom(_, _)
DistinctFrom(k, j) ==
    IF j > Len(StatusOrder) THEN <<>>
    ELSE (IF FirstOccurrence(k, j) THEN <<NormStatus(StatusValue(k, j))>> ELSE <<>>)
         \o DistinctFrom(k, j + 1)

\* C16: the composite status lists the trimmed, uppercased values of status_tanah,
\* catatan, k3, pemetaan and tanah_bangunan in that order, joined by ' | ', each
\* distinct value once at the place of its first occurrence; values that differ only
\* in case or surrounding whitespace are one part, and TERMANFAATKAN, TERMANFAATKAN,
\* TKD give 'TERMANFAATKAN | TKD'.
C16_DistinctInFieldOrder ==
    \A k \in 1..Len(all_data) :
        LET parts == DistinctFrom(k, 1)
        IN  /\ all_data[k]["status_combined"] = Txt(join(" | ", parts))
            /\ (/\ NormStatus(StatusValue(k, 1)) = "TERMANFAATKAN"
                /\ NormStatus(StatusValue(k, 2)) = "TERMANFAATKAN"
                /\ NormStatus(StatusValue(k, 3)) = "TKD"
                /\ ~Contributes(StatusValue(k, 4))
                /\ ~Contributes(StatusValue(k, 5))) =>
                  all_data[k]["status_combined"] = Txt("TERMANFAATKAN | TKD")

\* the record handed to combine_status_fields for the row behind record k
StatusInput(k) == CleanNumeric(FillName(RecordOf(all_idx[k])))

\* a value that is absent, empty or a sentinel non-value
Excluded(v) == isna(v) \/ NormStatus(v) \in {"", "NAN", "NONE", "-"}

\* record without field f, and record cut down to the fields in S
Without(record, f) == [g \in (DOMAIN record) \ {f} |-> record[g]]
Only(record, S) == [g \in (DOMAIN record) \cap S |-> record[g]]

StatusFieldSet == {StatusOrder[j] : j \in 1..Len(StatusOrder)}

\* C17: a status value that after trimming, whatever its case, is NAN, NONE or '-',
\* and a value that is absent or empty, adds no part and no delimiter to the
\* composite; when all five are such the composite is the empty string and nothing is
\* raised; fields other than the five status fields do not influence the composite.
C17_SentinelsExcluded ==
    /\ combine_status_fields(EmptyRecord) = ""
    /\ combine_status_fields([f \in StatusFieldSet |-> NaN]) = ""
    /\ \A k \in 1..Len(all_data) :
          LET record    == StatusInput(k)
              composite == all_data[k]["status_combined"]
          IN  /\ composite = Txt(combine_status_fields(record))
              /\ \A f \in StatusFieldSet :
                    Excluded(Get(record, f)) =>
                        composite = Txt(combine_status_fields(Without(record, f)))
              /\ (\A f \in StatusFieldSet : Excluded(Get(record, f))) => composite = Txt("")
              /\ composite = Txt(combine_status_fields(Only(record, StatusFieldSet)))

\* a record whose status cells hold the three sentinels and one status, under a name
\* that reads like a status
C17_Witness ==
    \E k \in 1..Len(all_data) :
        /\ StatusValue(k, 1) = Txt("-")
        /\ StatusValue(k, 2) = Txt("nan")
        /\ StatusValue(k, 3) = Txt(" None ")
        /\ StatusValue(k, 4) = Txt("BELUM TERPETAKAN")
        /\ StatusValue(k, 5) = Txt("-")
        /\ all_data[k]["nama_asset"] = Txt("TERLANTAR")
        /\ all_data[k]["status_combined"] = Txt("BELUM TERPETAKAN")

\* the district cell of row r of df_data is absent or holds '0', '-' or nothing after trimming
DistrictNull(r) ==
    LET district == Get(RawRecord(df_data[r], col_map), "kecamatan")
    IN  district.t = "none" \/ strip(str(district)) \in {"0", "-", ""}

\* the name cell of row r of df_data is absent or blank
NameAbsent(r) ==
    LET name == Get(RawRecord(df_data[r], col_map), "nama_asset")
    IN  name.t = "none" \/ strip(str(name)) = ""

\* the number of rows among the first n below the header that the classifier rejects
\* or that have neither a name nor a district
RECURSIVE SkippedAmong(_)
SkippedAmong(n) ==
    IF n = 0 THEN 0
    ELSE SkippedAmong(n - 1)
         + (IF ~is_data_row(df_data[n]) \/ (NameAbsent(n) /\ DistrictNull(n)) THEN 1 ELSE 0)

\* C18: the district of an accepted row is normalized before the name is checked: '0',
\* '-' and the empty string, after trimming, become null. A row without a name is then
\* emitted under the placeholder exactly when a district remains; otherwise it is not
\* emitted and skipped_rows grows by exactly one. No record has the district '0',
\* '-' or ''.
C18_DistrictBeforeName ==
    Mapped =>
        /\ \A r \in 1..i : (is_data_row(df_data[r]) /\ NameAbsent(r)) =>
              (Emitted(r) <=> ~DistrictNull(r))
        /\ stats.skipped_rows = SkippedAmong(i)
        /\ \A k \in 1..Len(all_data) :
              /\ NameAbsent(all_idx[k]) => all_data[k]["nama_asset"] = Txt(Placeholder)
              /\ DistrictNull(all_idx[k]) => Get(all_data[k], "kecamatan") = None
              /\ Get(all_data[k], "kecamatan") \notin {Txt("0"), Txt("-"), Txt("")}

\* the canonical fields: the values of the mapping table
CanonicalFields == {COLUMN_MAPPING[j][2] : j \in 1..Len(COLUMN_MAPPING)}

\* label matches no known label, neither exactly nor by containment ignoring case
MatchesNoLabel(label) ==
    LET cand == lower(label)
    IN  \A j \in 1..Len(COLUMN_MAPPING) :
            /\ COLUMN_MAPPING[j][1] # label
            /\ ~Contains(LowerLabels[j], cand)
            /\ ~Contains(cand, LowerLabels[j])

\* the 0-based columns none of whose labels matches a known label
UnmatchedColumns ==
    {idx \in 0..(Len(columns) - 1) :
        LET cands == Candidates(columns, df_data, idx)
        IN  \A c \in 1..Len(cands) : MatchesNoLabel(cands[c])}

\* the row with the cells of the columns in `unmatched` emptied
WithoutColumns(row, unmatched) ==
    [c \in 1..Len(row) |-> IF (c - 1) \in unmatched THEN Txt("") ELSE row[c]]

\* C19: every key of every record is a canonical field of the mapping table or
\* status_combined; a column none of whose labels matches a known label, exactly or
\* by containment, is left unmapped, and its cells do not reach any record.
C19_ClosedFieldSet ==
    Mapped =>
        LET unmatched == UnmatchedColumns
        IN  /\ unmatched \cap DOMAIN col_map = {}
            /\ \A k \in 1..Len(all_data) :
                  /\ DOMAIN all_data[k] \subseteq CanonicalFields \cup {"status_combined"}
                  /\ all_data[k] = FinishRecord(CleanKecamatan(
                                       RawRecord(WithoutColumns(df_data[all_idx[k]], unmatched), col_map)))

\* a record built from a row that holds a value in an unmatched column
C19_Witness ==
    /\ Mapped
    /\ \E k \in 1..Len(all_data) : \E idx \in UnmatchedColumns :
          /\ columns[idx + 1] = "XYZ"
          /\ NonEmpty(df_data[all_idx[k]][idx + 1])

\* the raw values the rows below the header hold for field f
RawValuesOf(f) == {Get(RawRecord(df_data[r], col_map), f) : r \in 1..Len(df_data)}

\* C20: for every raw cell value -- absent, empty, text, integer, finite or infinite
\* float -- each of the three normalizers returns a number or null and raises nothing.
C20_NormalizersNeverRaise ==
    Mapped =>
        /\ \A v \in RawValuesOf("luas") \cup {NaN} :
              clean_luas_value(v).t \in {"none", "float"}
        /\ \A v \in RawValuesOf("nilai_harga") \cup {NaN} :
              clean_nilai_value(v).t \in {"none", "float"}
        /\ \A v \in RawValuesOf("tahun") \cup {NaN} :
              clean_tahun_value(v).t \in {"none", "int"}

\* the name of the sheet pd.read_excel delivers for the workbook
SheetReadName == IF HasSheetA THEN "A" ELSE book[1].name

\* C21: when the workbook has no sheet 'A' the first sheet is read and processed as
\* usual, the fallback adding no error entry; only a workbook of which no sheet can be
\* read ends with no records and an error entry; and on every run that read a sheet
\* sheets_processed names the sheet that was read.
C21_FallbackNamesSheetRead ==
    /\ (pc # "read" /\ Len(book) > 0) =>
          /\ df_raw = fillna(SheetRead)
          /\ stats.total_rows_read = Len(SheetRead)
          /\ Len(stats.sheets_processed) = 1
          /\ Contains(SheetReadName, stats.sheets_processed[1])
    /\ (pc = "find_header" /\ ~HasSheetA) => stats.errors = <<>>
    /\ (Returned /\ Len(book) = 0) => result = <<>> /\ Len(stats.errors) = 1

\* the number of marker phrases that occur, ignoring case, in the text of the row
UpperMatches(row) ==
    Cardinality({t \in 1..Len(search_terms) : Contains(upper(search_terms[t]), UpperRowStr(row))})

\* the 0-based indices of the rows holding at least two marker phrases in any case
UpperHeaderLikeRows == {k \in 0..(Len(df_raw) - 1) : UpperMatches(df_raw[k + 1]) >= MinMatches}

\* C23: the header locator counts the marker phrases on the uppercased text of a row,
\* so the letter case of the labels does not matter: the first row holding two marker
\* phrases in any case -- 'SATUAN KERJA' and 'KECAMATAN', or 'Satuan Kerja' and
\* 'Kecamatan' -- is returned as the header row.
C23_HeaderAnyCase ==
    pc \in {"find_header", "map"} =>
        (UpperHeaderLikeRows # {} => find_header_row(df_raw) = Least(UpperHeaderLikeRows))

\* what C24 says of one step of a run
CountedOnce ==
    /\ stats'.skipped_rows >= stats.skipped_rows
    /\ Len(all_data') >= Len(all_data)
    /\ i' = i + 1 =>
          \/ Len(all_data') = Len(all_data) + 1 /\ stats'.skipped_rows = stats.skipped_rows
          \/ Len(all_data') = Len(all_data) /\ stats'.skipped_rows = stats.skipped_rows + 1
    /\ (pc' = "done" /\ stats'.errors = <<>>) =>
          stats'.valid_rows + stats'.skipped_rows = stats'.total_rows_read - header_row_idx' - 1

\* C24: in a run that ends without an error entry every row below the header is
\* counted exactly once, as emitted or as skipped: valid_rows + skipped_rows =
\* total_rows_read - header_row_index - 1; a row rejected for its missing name adds
\* one to skipped_rows, not two, and skipped_rows and the number of records never
\* decrease.
C24_EachRowCountedOnce == [][CountedOnce]_vars

\* a run without error that emitted a record and skipped a row for its missing name
C24_Witness ==
    /\ Returned
    /\ stats.errors = <<>>
    /\ stats.valid_rows > 0
    /\ stats.skipped_rows > skipped_by_filter
    /\ stats.valid_rows + stats.skipped_rows = stats.total_rows_read - header_row_idx - 1

\* the cell holds a whole number that is not negative
WholeNumber(v) == v.t \in {"int", "float"} /\ v.d = 0 /\ v.n >= 0

\* C25: a currency cell that already holds a number keeps its value: a whole,
\* non-negative n, stored as a float (1250000.0) or as an integer, is emitted as n,
\* and nilai_harga is never the cell's value times a power of ten.
C25_NumericCurrencyKept ==
    \A k \in 1..Len(all_data) : "nilai_harga" \in DOMAIN all_data[k] =>
        LET raw == OriginalValue(k, "nilai_harga")
            out == all_data[k]["nilai_harga"]
        IN  /\ WholeNumber(raw) => out = Flt(raw.n, 0)
            /\ (raw.t \in {"int", "float"} /\ raw.n # 0 /\ out.t = "float") =>
                  \A e \in 1..(Len(NatToStr(Abs(out.n))) - 1) :
                      ~ /\ out.n % Pow10(e) = 0
                        /\ (out.n \div Pow10(e)) * Pow10(raw.d) = raw.n * Pow10(out.d)

\* the row below the header was taken as a secondary header row, and the row loop is
\* past it
SecondaryHeaderPassed ==
    /\ pc \in {"rows", "done"}
    /\ DOMAIN col_map # {}
    /\ HasSecondaryHeaders(df_data)
    /\ i >= 1

\* the secondary header row was rejected by the classifier and counted once
SecondaryHeaderSkipped ==
    /\ ~is_data_row(df_data[1])
    /\ ~Emitted(1)
    /\ i = 1 => (stats.skipped_rows = 1 /\ skipped_by_filter = 1 /\ all_data = <<>>)

\* C26: a row below the header that is taken as a secondary header row (it holds
\* LETAK and ALAMAT) is never emitted as a record: the classifier rejects it and it
\* is counted once in skipped_rows.
C26_SecondaryHeaderNeverEmitted == SecondaryHeaderPassed => SecondaryHeaderSkipped

\* the secondary header row is one the classifier accepts by its rule for the sentinel:
\* the first cell is BEDA and at least three cells are non-empty
SentinelRow ==
    /\ FirstVal(df_data[1]) = "BEDA"
    /\ Len(NonEmptyCells(df_data[1])) >= MinNonEmpty

\* the row below the header has a name, or a district that is no null token and not zero
NamedOrLocated ==
    LET name     == Get(RawRecord(df_data[1], col_map), "nama_asset")
        district == Get(RawRecord(df_data[1], col_map), "kecamatan")
    IN  \/ name.t \notin {"none", "nan"} /\ strip(str(name)) # "" /\ ~(name.t \in {"int", "float"} /\ name.n = 0)
        \/ /\ district.t \notin {"none", "nan"}
           /\ strip(str(district)) \notin {"0", "-", ""}
           /\ ~(district.t \in {"int", "float"} /\ district.n = 0)

\* C26, amended: a secondary header row is rejected by the classifier, counted once
\* in skipped_rows and never emitted, unless its first cell is the sentinel BEDA and
\* at least three of its cells are non-empty. The classifier accepts such a row, and
\* the row is emitted exactly when it has a name or a district; when it has neither
\* it is not emitted and counted once in skipped_rows, as a row without a name.
C26_SecondaryHeaderSkippedUnlessSentinel ==
    SecondaryHeaderPassed =>
        IF SentinelRow
        THEN /\ is_data_row(df_data[1])
             /\ Emitted(1) <=> NamedOrLocated
             /\ i = 1 => /\ skipped_by_filter = 0
                         /\ stats.skipped_rows = (IF NamedOrLocated THEN 0 ELSE 1)
                         /\ Len(all_data) = (IF NamedOrLocated THEN 1 ELSE 0)
        ELSE SecondaryHeaderSkipped

\* a secondary header row that starts with BEDA and has two non-empty cells was
\* rejected by the classifier and counted
C26_Witness ==
    /\ SecondaryHeaderPassed
    /\ FirstVal(df_data[1]) = "BEDA"
    /\ ~SentinelRow
    /\ i = 1
    /\ stats.skipped_rows = 1
    /\ skipped_by_filter = 1
    /\ all_data = <<>>


-----------------------------------------------------------------------------
(* Two invocations of parse_excel_file in two threads.                     *)

\* the locals of the invocation that is running: parse_excel_file creates its
\* statistics and its record list anew at each call and keeps nothing at module level
Locals ==
    [book |-> book, pc |-> pc, df_raw |-> df_raw, header_row_idx |-> header_row_idx,
     columns |-> columns, df_data |-> df_data, col_map |-> col_map, i |-> i,
     all_data |-> all_data, all_idx |-> all_idx, skipped_by_filter |-> skipped_by_filter,
     stats |-> stats, result |-> result]

\* the locals of an invocation that has not started, for the workbook b
StartLocals(b) ==
    [book |-> b, pc |-> "read", df_raw |-> <<>>, header_row_idx |-> -1, columns |-> <<>>,
     df_data |-> <<>>, col_map |-> EmptyRecord, i |-> 0, all_data |-> <<>>, all_idx |-> <<>>,
     skipped_by_filter |-> 0, stats |-> InitStats, result |-> <<>>]

\* variant of Switch: the statistics dictionary is one object shared by the invocations
SwitchSharedStats ==
    /\ other.pc # "none"
    /\ other' = Locals
    /\ book' = other.book
    /\ pc' = other.pc
    /\ df_raw' = other.df_raw
    /\ header_row_idx' = other.header_row_idx
    /\ columns' = other.columns
    /\ df_data' = other.df_data
    /\ col_map' = other.col_map
    /\ i' = other.i
    /\ all_data' = other.all_data
    /\ all_idx' = other.all_idx
    /\ skipped_by_filter' = other.skipped_by_filter
    /\ result' = other.result
    /\ UNCHANGED <<stats, web>>

\* the interpreter switches threads: the other invocation goes on with its own locals
Switch ==
    /\ other.pc # "none"
    /\ other' = Locals
    /\ book' = other.book
    /\ pc' = other.pc
    /\ df_raw' = other.df_raw
    /\ header_row_idx' = other.header_row_idx
    /\ columns' = other.columns
    /\ df_data' = other.df_data
    /\ col_map' = other.col_map
    /\ i' = other.i
    /\ all_data' = other.all_data
    /\ all_idx' = other.all_idx
    /\ skipped_by_filter' = other.skipped_by_filter
    /\ stats' = other.stats
    /\ result' = other.result
    /\ UNCHANGED web

\* a sheet with a number column and a count column, holding numbers written as text
\* and as floats
HeaderCounts == Row5(Txt("Satuan Kerja"), Txt("Penggunaan"), Txt("KECAMATAN"), Txt("No."), Txt("JUMLAH BIDANG"))
RowCountsText == Row5(Txt("Dinas"), Txt("Kantor"), Num(5), Txt("12"), Flt(3, 0))
RowCountsFloat == Row5(Txt("Dinas"), Txt("Gudang"), Txt("Gubeng"), Flt(7, 0), Txt("dua"))

\* the workbooks given to two concurrent invocations: an unreadable file, sheets read
\* by name and by position, a header that cannot be mapped, a year that raises
TwoBooks ==
    {<<>>,
     <<[name |-> "A", rows |-> <<BannerPlain, HeaderStd, RowSubtotal, RowGood, RowNoNameNoKec>>]>>,
     <<[name |-> "A", rows |-> <<HeaderTwoYears, RowNoNameKec, RowGoodToo>>]>>,
     <<[name |-> "A", rows |-> <<HeaderStd, RowGood, RowInfYear>>]>>,
     <<[name |-> "A", rows |-> <<HeaderCounts, RowCountsText, RowCountsFloat>>]>>,
     <<[name |-> "Sheet1", rows |-> <<HeaderLowerCase, RowGood>>]>>,
     <<[name |-> "Sheet1", rows |-> [k \in 1..DefaultHeaderIdx |-> BannerPlain] \o <<HeaderUnmappable, RowGood>>]>>,
     <<[name |-> "Sheet1", rows |-> [k \in 1..DefaultHeaderIdx |-> BannerPlain]
                                    \o <<HeaderLowerCase, RowSubtotal, RowGood>>]>>}

InitTwo ==
    /\ book \in TwoBooks
    /\ pc = "read"
    /\ df_raw = <<>>
    /\ header_row_idx = -1
    /\ columns = <<>>
    /\ df_data = <<>>
    /\ col_map = EmptyRecord
    /\ i = 0
    /\ all_data = <<>>
    /\ all_idx = <<>>
    /\ skipped_by_filter = 0
    /\ stats = InitStats
    /\ result = <<>>
    /\ \E b \in TwoBooks : other = StartLocals(b)
    /\ NoRequest

NextTwo ==
    \/ ReadSheetA
    \/ ReadFirstSheet
    \/ ReadFails
    \/ LocateHeader
    \/ LocateHeaderFails
    \/ MapColumns
    \/ MapColumnsFails
    \/ SkipRow
    \/ RejectRow
    \/ EmitRow
    \/ RowRaises
    \/ Finish
    \/ Switch

SpecTwo == InitTwo /\ [][NextTwo]_vars

\* the row loop from row r of df_data on, run to its end or to the row that raises;
\* done holds the records appended and the rows skipped before row r
RECURSIVE RunRows(_, _, _, _)
RunRows(rows, cmap, r, done) ==
    IF r > Len(rows) THEN done
    ELSE LET record == CleanKecamatan(RawRecord(rows[r], cmap))
         IN  IF ~is_data_row(rows[r]) \/ NameMissing(record)
             THEN RunRows(rows, cmap, r + 1, [done EXCEPT !.skipped = @ + 1])
             ELSE IF NumericRaises(FillName(record))
             THEN [done EXCEPT !.raised = TRUE]
             ELSE RunRows(rows, cmap, r + 1,
                          [done EXCEPT !.data = Append(@, FinishRecord(record))])

\* parse_excel_file(filepath) run alone on the workbook b: what it returns
Outcome(b) ==
    IF Len(b) = 0
    THEN [result |-> <<>>,
          stats  |-> [InitStats EXCEPT !.errors = <<"Error reading Excel file: read_excel">>]]
    ELSE
    LET named == {k \in 1..Len(b) : b[k].name = "A"}
        rows  == IF named # {} THEN b[CHOOSE k \in named : TRUE].rows ELSE b[1].rows
        df    == fillna(rows)
        read  == [InitStats EXCEPT !.total_rows_read = Len(rows),
                                   !.sheets_processed = <<"Sheet A/0">>]
        idx   == HeaderIdx(df)
    IN  IF idx >= Len(df)
        THEN [result |-> <<>>,
              stats  |-> [read EXCEPT !.errors = <<"Error reading Excel file: IndexError">>]]
        ELSE
        LET data == SubSeq(df, idx + 2, Len(df))
            cols == [c \in 1..Len(df[idx + 1]) |-> strip(str(df[idx + 1][c]))]
            cmap == map_columns(cols, data)
            run  == RunRows(data, cmap, 1, [data |-> <<>>, skipped |-> 0, raised |-> FALSE])
        IN  IF DOMAIN cmap = {}
            THEN [result |-> <<>>, stats |-> [read EXCEPT !.errors = <<"Could not map columns">>]]
            ELSE IF run.raised
            THEN [result |-> <<>>,
                  stats  |-> [read EXCEPT !.skipped_rows = run.skipped,
                                          !.errors = <<"Error reading Excel file: OverflowError">>]]
            ELSE [result |-> DataFrame(run.data),
                  stats  |-> [read EXCEPT !.skipped_rows = run.skipped,
                                          !.valid_rows = Len(run.data)]]

\* a step of one invocation leaves the locals of the other as they are; a switch of
\* threads changes no local of either
OtherUntouched ==
    \/ other' = other
    \/ other' = Locals /\ Locals' = other

\* after the step, an invocation that has returned has returned what it returns alone
ReturnsAsAlone ==
    /\ pc' = "done" =>
          result' = Outcome(book').result /\ stats' = Outcome(book').stats
    /\ other'.pc = "done" =>
          other'.result = Outcome(other'.book).result /\ other'.stats = Outcome(other'.book).stats

\* C22: two invocations on independent files share no mutable state: however their
\* steps interleave, each returns the record set and the statistics it returns when
\* run alone, and the counters and the error list of one are never changed by a step
\* of the other.
C22_InvocationsIndependent == [][OtherUntouched /\ ReturnsAsAlone]_vars

\* one invocation has returned records while the other, on another file, is inside
\* its row loop with records of its own
C22_Witness ==
    /\ pc = "done"
    /\ result # <<>>
    /\ stats.skipped_rows > 0
    /\ other.pc = "rows"
    /\ other.book # book
    /\ other.i > 0
    /\ other.i < Len(other.df_data)
    /\ other.all_data # <<>>


-----------------------------------------------------------------------------
(* The upload handler of app.py.                                           *)

\* the columns an Asset row is built from
AssetColumns ==
    {"no_kib", "no_urut", "kode_lokasi", "kode_aset", "satuan_kerja", "nama_asset", "nomor",
     "luas", "tahun", "kecamatan", "alamat", "status_tanah", "catatan", "k3", "pemetaan",
     "tanah_bangunan", "status_combined", "nilai_harga", "asal_usul", "penggunaan",
     "jumlah_bidang", "keterangan", "lain_lain"}

\* Asset(no_kib=row.get('no_kib'), ...): a column the row lacks is null
AssetOf(row) == [c \in AssetColumns |-> Get(row, c)]

\* the Asset rows added for the records of df
AssetRows(df) == [k \in 1..Len(df) |-> AssetOf(df[k])]

\* the column types of models.py: Integer, Float; every other column is String or Text
IntegerColumns == {"no_urut", "tahun", "jumlah_bidang"}
FloatColumns == {"luas", "nilai_harga"}

\* position of the exponent mark of s, 0 when it has none
ExponentAt(s) ==
    LET hits == {k \in 1..Len(s) : CharAt(s, k) \in {"e", "E"}}
    IN  IF hits = {} THEN 0 ELSE CHOOSE k \in hits : \A j \in hits : k <= j

Unsigned(s) == IF s # "" /\ CharAt(s, 1) \in {"+", "-"} THEN SubSeq(s, 2, Len(s)) ELSE s

\* the characters SQLite skips before and after a numeric literal, and the digits
\* it reads
SqlSpace(c) == c \in {" ", "\t", "\n", "", "\f", "\r"}
SqlDigit(c) == c \in CharsOf(DigitChars)

RECURSIVE SqlTrimLeft(_)
SqlTrimLeft(s) == IF s # "" /\ SqlSpace(CharAt(s, 1)) THEN SqlTrimLeft(SubSeq(s, 2, Len(s))) ELSE s

RECURSIVE SqlTrimRight(_)
SqlTrimRight(s) ==
    IF s # "" /\ SqlSpace(CharAt(s, Len(s))) THEN SqlTrimRight(SubSeq(s, 1, Len(s) - 1)) ELSE s

SqlTrim(s) == SqlTrimRight(SqlTrimLeft(s))

\* the mantissa and the exponent of the text, surrounding whitespace and sign removed
Mantissa(s) ==
    LET body == Unsigned(SqlTrim(s))
        e    == ExponentAt(body)
    IN  IF e = 0 THEN body ELSE SubSeq(body, 1, e - 1)

ExponentText(s) ==
    LET body == Unsigned(SqlTrim(s))
        e    == ExponentAt(body)
    IN  IF e = 0 THEN "" ELSE SubSeq(body, e + 1, Len(body))

\* the text is a well-formed integer or real literal for SQLite
IsSqlNumber(s) ==
    LET m  == Mantissa(s)
        ex == ExponentText(s)
    IN  /\ \A k \in 1..Len(m) : SqlDigit(CharAt(m, k)) \/ CharAt(m, k) = "."
        /\ CountChar(".", m) <= 1
        /\ Len(DropDots(m)) >= 1
        /\ ExponentAt(Unsigned(SqlTrim(s))) # 0 =>
              /\ Unsigned(ex) # ""
              /\ \A k \in 1..Len(Unsigned(ex)) : SqlDigit(CharAt(Unsigned(ex), k))

\* n / 10^d times 10^e
Scale(n, d, e) == IF e <= d THEN Flt(n, d - e) ELSE Flt(n * Pow10(e - d), 0)

\* the number such a literal denotes
SqlNumber(s) ==
    LET m   == ParseFloat(Mantissa(s))
        ex  == ExponentText(s)
        e   == IF ex = "" THEN 0 ELSE DigitsToNat(Unsigned(ex))
        neg == startswith(SqlTrim(s), "-")
        n   == IF neg THEN -m.n ELSE m.n
    IN  IF startswith(ex, "-") THEN Flt(n, m.d + e) ELSE Scale(n, m.d, e)

\* a number as a column of integer type stores it: a whole float becomes an integer
AsInteger(v) == IF v.t = "float" /\ v.d = 0 THEN Num(v.n) ELSE v

\* a number as SQLite writes it into a column of text type
SqlText(v) ==
    CASE v.t = "inf" -> (IF v.n < 0 THEN "-Inf" ELSE "Inf")
      [] v.t = "float" /\ v.n # 0 /\ v.d - Len(NatToStr(Abs(v.n))) + 1 > 4
                     -> LET ds == NatToStr(Abs(v.n))
                            e  == v.d - Len(ds) + 1
                        IN  (IF v.n < 0 THEN "-" ELSE "") \o CharAt(ds, 1) \o "."
                            \o (IF Len(ds) > 1 THEN SubSeq(ds, 2, Len(ds)) ELSE "0")
                            \o "e-" \o (IF e < 10 THEN "0" ELSE "") \o NatToStr(e)
      [] OTHER       -> str(v)

\* the value the database keeps for v in column c (SQLite column affinity): NaN and
\* None are NULL; a column of integer or float type turns numeric text into a number;
\* a column of text type turns a number into text
StoreValue(c, v) ==
    IF isna(v) THEN None
    ELSE IF c \in IntegerColumns
    THEN IF v.t = "str" THEN (IF IsSqlNumber(v.s) THEN AsInteger(SqlNumber(v.s)) ELSE v)
         ELSE AsInteger(v)
    ELSE IF c \in FloatColumns
    THEN IF v.t = "str" THEN (IF IsSqlNumber(v.s) THEN SqlNumber(v.s) ELSE v)
         ELSE IF v.t = "int" THEN Flt(v.n, 0) ELSE v
    ELSE IF v.t = "str" THEN v ELSE Txt(SqlText(v))

\* the Asset rows as the INSERT statements of a flush store them
StoredRows(rows) == [k \in 1..Len(rows) |-> [c \in AssetColumns |-> StoreValue(c, rows[k][c])]]

\* the Asset table when the request arrives: empty, or filled by an earlier upload
OldAsset == AssetOf([nama_asset |-> Txt("Balai Lama"), kecamatan |-> Txt("Tegalsari"),
                     status_combined |-> Txt("")])
PreviousTables == {<<>>, <<OldAsset>>}

\* the locals of parse_excel_file that the handler never sees
parser_locals == <<df_raw, header_row_idx, columns, df_data, col_map, i, all_data, all_idx,
                   skipped_by_filter, other>>

\* everything parse_excel_file works on
parser_vars == <<book, pc, stats, result, parser_locals>>

\* the form does not validate or the file name is not allowed: nothing is recorded
InvalidFile ==
    /\ hpc = "start"
    /\ hpc' = "done"
    /\ UNCHANGED <<parser_vars, assets, assets_before, session_assets, upload_record,
                   file_exists, exc, write_lock>>

\* UploadHistory(filename, status='processing') is added and committed
CreateRecord ==
    /\ hpc = "start"
    /\ upload_record' = [status |-> "processing", records_count |-> None, error_message |-> ""]
    /\ hpc' = "save"
    /\ UNCHANGED <<parser_vars, assets, assets_before, session_assets, file_exists, exc,
                   write_lock>>

\* that commit raises, outside the try statement: the request ends with the
\* exception, and its session is removed
CreateRecordFails ==
    /\ hpc = "start"
    /\ exc' = "OperationalError"
    /\ hpc' = "done"
    /\ write_lock' = FALSE
    /\ UNCHANGED <<parser_vars, assets, assets_before, session_assets, upload_record,
                   file_exists>>

\* file.save(filepath); parse_excel_file(filepath) is entered
SaveFile ==
    /\ hpc = "save"
    /\ file_exists' = TRUE
    /\ pc' = "read"
    /\ hpc' = "parse"
    /\ UNCHANGED <<book, stats, result, parser_locals, assets, assets_before, session_assets,
                   upload_record, exc, write_lock>>

\* file.save raises, with or without a partly written file left behind
SaveFileFails ==
    /\ hpc = "save"
    /\ file_exists' \in BOOLEAN
    /\ exc' = "OSError"
    /\ hpc' = "except"
    /\ UNCHANGED <<parser_vars, assets, assets_before, session_assets, upload_record,
                   write_lock>>

\* df, stats = parse_excel_file(filepath) has returned, with records in df
ParseFile ==
    /\ hpc = "parse"
    /\ pc = "done"
    /\ result # <<>>
    /\ hpc' = "delete"
    /\ UNCHANGED <<parser_vars, assets, assets_before, session_assets, upload_record,
                   file_exists, exc, write_lock>>

\* parse_excel_file has returned an empty frame: `if df.empty: raise ValueError(...)`
ParseFileEmpty ==
    /\ hpc = "parse"
    /\ pc = "done"
    /\ result = <<>>
    /\ exc' = "No data could be extracted from the file"
    /\ hpc' = "except"
    /\ UNCHANGED <<parser_vars, assets, assets_before, session_assets, upload_record,
                   file_exists, write_lock>>

\* Asset.query.delete(): the DELETE statement opens the transaction of the session,
\* which holds the write lock from here on
ClearAssets ==
    /\ hpc = "delete"
    /\ session_assets' = <<>>
    /\ hpc' = "insert"
    /\ write_lock' = TRUE
    /\ UNCHANGED <<parser_vars, assets, assets_before, upload_record, file_exists, exc>>

\* the DELETE statement raises: no write has been made
ClearAssetsFails ==
    /\ hpc = "delete"
    /\ exc' = "OperationalError"
    /\ hpc' = "except"
    /\ write_lock' = FALSE
    /\ UNCHANGED <<parser_vars, assets, assets_before, session_assets, upload_record,
                   file_exists>>

\* the loop over df.iterrows(): one Asset is added to the session for each record
InsertAssets ==
    /\ hpc = "insert"
    /\ session_assets' = session_assets \o AssetRows(result)
    /\ hpc' = "commit"
    /\ UNCHANGED <<parser_vars, assets, assets_before, upload_record, file_exists, exc,
                   write_lock>>

\* db.session.commit(): the new rows are flushed; the deletion and the rows as stored
\* become the table
CommitAssets ==
    /\ hpc = "commit"
    /\ assets' = StoredRows(session_assets)
    /\ session_assets' = assets'
    /\ hpc' = "mark"
    /\ write_lock' = FALSE
    /\ UNCHANGED <<parser_vars, assets_before, upload_record, file_exists, exc>>

\* db.session.commit() raises: an INSERT fails when the session is flushed, and the
\* flush has rolled the transaction back; or the COMMIT statement fails, and the
\* transaction stays open with its write lock
CommitAssetsFails ==
    /\ hpc = "commit"
    /\ exc' = "IntegrityError"
    /\ hpc' = "except"
    /\ write_lock' \in BOOLEAN
    /\ UNCHANGED <<parser_vars, assets, assets_before, session_assets, upload_record,
                   file_exists>>

\* the entry is set to 'success' with the number of records, and committed
MarkSuccess ==
    /\ hpc = "mark"
    /\ upload_record' = [upload_record EXCEPT !.status = "success",
                                              !.records_count = Num(stats.valid_rows)]
    /\ hpc' = "preview"
    /\ write_lock' = FALSE
    /\ UNCHANGED <<parser_vars, assets, assets_before, session_assets, file_exists, exc>>

\* the commit of the entry raises: at the UPDATE of the flush, which rolls the
\* transaction back, or at the COMMIT statement, which leaves it open
MarkSuccessFails ==
    /\ hpc = "mark"
    /\ exc' = "OperationalError"
    /\ hpc' = "except"
    /\ write_lock' \in BOOLEAN
    /\ UNCHANGED <<parser_vars, assets, assets_before, session_assets, upload_record,
                   file_exists>>

\* flash, the query for the sample rows and the page: the handler returns
Preview ==
    /\ hpc = "preview"
    /\ hpc' = "finally"
    /\ UNCHANGED <<parser_vars, assets, assets_before, session_assets, upload_record,
                   file_exists, exc, write_lock>>

\* the query for the sample rows raises
PreviewFails ==
    /\ hpc = "preview"
    /\ exc' = "OperationalError"
    /\ hpc' = "except"
    /\ UNCHANGED <<parser_vars, assets, assets_before, session_assets, upload_record,
                   file_exists, write_lock>>

\* `except Exception as e`: db.session.rollback() ends the transaction and releases
\* its lock
Rollback ==
    /\ hpc = "except"
    /\ session_assets' = assets
    /\ hpc' = "mark_failed"
    /\ write_lock' = FALSE
    /\ UNCHANGED <<parser_vars, assets, assets_before, upload_record, file_exists, exc>>

\* the entry is set to 'failed' with str(e), and committed
MarkFailed ==
    /\ hpc = "mark_failed"
    /\ upload_record' = [upload_record EXCEPT !.status = "failed", !.error_message = exc]
    /\ exc' = ""
    /\ hpc' = "finally"
    /\ write_lock' = FALSE
    /\ UNCHANGED <<parser_vars, assets, assets_before, session_assets, file_exists>>

\* that commit raises inside the except clause, at the flush or at the COMMIT
\* statement: the exception leaves the handler
MarkFailedFails ==
    /\ hpc = "mark_failed"
    /\ exc' = "OperationalError"
    /\ hpc' = "finally"
    /\ write_lock' \in BOOLEAN
    /\ UNCHANGED <<parser_vars, assets, assets_before, session_assets, upload_record,
                   file_exists>>

\* `finally`: the uploaded file is removed when it exists; the request ends and its
\* session is removed, which rolls back a transaction left open
CleanUp ==
    /\ hpc = "finally"
    /\ file_exists' = FALSE
    /\ hpc' = "done"
    /\ write_lock' = FALSE
    /\ UNCHANGED <<parser_vars, assets, assets_before, session_assets, upload_record, exc>>

\* another request, POST /clear-data, is served meanwhile: clear_data() deletes every
\* Asset row and commits.  While the upload request holds the write lock its DELETE
\* fails and clear_data() rolls back, changing nothing
ClearData ==
    /\ hpc # "none"
    /\ ~write_lock
    /\ assets' = <<>>
    /\ session_assets' = <<>>
    /\ UNCHANGED <<parser_vars, hpc, assets_before, upload_record, file_exists, exc,
                   write_lock>>

InitUpload ==
    /\ book \in TwoBooks
    /\ pc = "idle"
    /\ df_raw = <<>>
    /\ header_row_idx = -1
    /\ columns = <<>>
    /\ df_data = <<>>
    /\ col_map = EmptyRecord
    /\ i = 0
    /\ all_data = <<>>
    /\ all_idx = <<>>
    /\ skipped_by_filter = 0
    /\ stats = InitStats
    /\ result = <<>>
    /\ other = NoInvocation
    /\ hpc = "start"
    /\ assets \in PreviousTables
    /\ assets_before = assets
    /\ session_assets = assets
    /\ upload_record = [status |-> "none"]
    /\ file_exists = FALSE
    /\ exc = ""
    /\ write_lock = FALSE

NextUpload ==
    \/ InvalidFile
    \/ CreateRecord
    \/ CreateRecordFails
    \/ SaveFile
    \/ SaveFileFails
    \/ ReadSheetA
    \/ ReadFirstSheet
    \/ ReadFails
    \/ LocateHeader
    \/ LocateHeaderFails
    \/ MapColumns
    \/ MapColumnsFails
    \/ SkipRow
    \/ RejectRow
    \/ EmitRow
    \/ RowRaises
    \/ Finish
    \/ ParseFile
    \/ ParseFileEmpty
    \/ ClearAssets
    \/ ClearAssetsFails
    \/ InsertAssets
    \/ CommitAssets
    \/ CommitAssetsFails
    \/ MarkSuccess
    \/ MarkSuccessFails
    \/ Preview
    \/ PreviewFails
    \/ Rollback
    \/ MarkFailed
    \/ MarkFailedFails
    \/ CleanUp
    \/ ClearData

SpecUpload == InitUpload /\ [][NextUpload]_vars

\* the step that ends a request which has an UploadHistory entry
Finishes == hpc # "done" /\ hpc' = "done" /\ upload_record'.status # "none"

\* the table and the entry the request leaves behind
Replaced ==
    /\ \/ assets = assets_before /\ upload_record.status = "failed"
       \/ /\ assets = StoredRows(AssetRows(result))
          /\ result # <<>>
          /\ upload_record.status = "success"
          /\ upload_record.records_count = Num(stats.valid_rows)
    /\ upload_record.status # "processing"
    /\ ~file_exists

\* C27: the stored assets are replaced atomically: when an upload request finishes,
\* the Asset table holds the rows it held before the request and the entry is
\* 'failed', or it holds the records of the parsed file and the entry is 'success'
\* with records_count equal to valid_rows; old and new rows are never mixed, a failed
\* upload never empties the table, the entry is never left at 'processing', and the
\* uploaded file is gone from the upload folder.
C27_AtomicReplace == [][Finishes => Replaced']_vars

====
